---- MODULE Spec2Model ----
(***************************************************************************)
(* A model of PersonaAnalyzer (src/persona_analyzer.py): the analyze       *)
(* pipeline that turns a corpus of posts and comments into a persona.      *)
(*                                                                         *)
(* Texts are sequences of tokens.  A token is a word, the punctuation      *)
(* token "." (one of . ! ?) or "," (one of , ;), or the empty token ""     *)
(* that stands for an empty title or body next to the joining space.  A    *)
(* text is rendered by writing its tokens in order with one space before   *)
(* every token that is neither the first one nor a punctuation token.      *)
(* Python dicts are functions: an absent key is a key outside the DOMAIN.  *)
(* Floats that the code compares are kept as exact fractions.              *)
(***************************************************************************)
EXTENDS Integers, Sequences, FiniteSets, TLC

\* ------------------------------------------------------------------------
\* Bounds of the model
\* ------------------------------------------------------------------------
MaxPosts == 2

MaxComments == 1

MaxCalls == 3

VARIABLES
    self,            \* the attributes set by PersonaAnalyzer.__init__
    user_data,       \* the argument of the analyze call: [isdict, d]
    now,             \* the clock that datetime.now() reads, in hours
    pc,              \* where the analyze call is
    error,           \* the exception that ended the call, "" if none
    persona,         \* the persona dict that analyze builds
    all_text_items,  \* the normalized text items
    idx,             \* the item that the loop of _extract_demographics is at
    demographics,    \* the demographics dict of _extract_demographics
    calls,           \* the analyze calls made on this instance
    returned,        \* the calls that returned: <<[input, now, persona]>>
    cli              \* the run of main() that makes the call, if one does

vars == <<self, user_data, now, pc, error, persona, all_text_items, idx,
          demographics, calls, returned, cli>>

\* ------------------------------------------------------------------------
\* Generic helpers
\* ------------------------------------------------------------------------
Range(s) == {s[k] : k \in DOMAIN s}

\* dict.get(key, default)
Get(d, key, default) == IF key \in DOMAIN d THEN d[key] ELSE default

RECURSIVE FoldLeft(_, _, _)
\* for x in s: acc = Op(acc, x)   (each step is evaluated before the next;
\* the loop over s is the loop over its first half and then the loop over
\* its second half, which keeps the evaluation shallow on long lists)
FoldLeft(Op(_, _), acc, s) ==
    IF s = <<>> THEN acc
    ELSE IF Len(s) = 1 THEN Op(acc, s[1])
    ELSE LET half == Len(s) \div 2
             next == FoldLeft(Op, acc, SubSeq(s, 1, half))
         IN  IF next = next
             THEN FoldLeft(Op, next, SubSeq(s, half + 1, Len(s)))
             ELSE next

RECURSIVE SumSeq(_)
SumSeq(s) == IF s = <<>> THEN 0 ELSE Head(s) + SumSeq(Tail(s))

\* seq[:n]
Take(s, n) == SubSeq(s, 1, IF Len(s) < n THEN Len(s) ELSE n)

\* x in list (Python compares by value)
InList(x, s) == \E k \in DOMAIN s : s[k] = x

\* ------------------------------------------------------------------------
\* Text layer: str.lower, str.strip, str.capitalize, len, re.split
\* ------------------------------------------------------------------------
Punct == {".", ","}

\* the words and names of the model that hold capitals: <<written, lower>>
LowerForms ==
    { <<"I", "i">>, <<"I'm", "i'm">>, <<"My", "my">>, <<"It", "it">>,
      <<"Seattle", "seattle">>, <<"New", "new">>, <<"York", "york">>,
      <<"AskScience", "askscience">>, <<"DIY", "diy">>,
      <<"EarthPorn", "earthporn">>, <<"GetMotivated", "getmotivated">>,
      <<"MilitaryStories", "militarystories">>,
      <<"HumansBeingBros", "humansbeingbros">>,
      <<"CasualConversation", "casualconversation">>,
      <<"AskReddit", "askreddit">>,
      <<"NoStupidQuestions", "nostupidquestions">>,
      <<"TooAfraidToAsk", "tooafraidtoask">>,
      <<"UpliftingNews", "upliftingnews">>, <<"MadeMeSmile", "mademesmile">>,
      <<"Art", "art">>, <<"Funny", "funny">>, <<"We", "we">>,
      <<"The", "the">>, <<"Traffic", "traffic">>, <<"Coffee", "coffee">>,
      <<"Should", "should">>, <<"Always", "always">>, <<"Never", "never">> }

\* str.lower() of one token
LowerTok(t) ==
    IF \E p \in LowerForms : p[1] = t
    THEN (CHOOSE p \in LowerForms : p[1] = t)[2]
    ELSE t

\* the first words of the facts of the model: <<lower, Capitalized>>
CapitalForms ==
    { <<"i", "I">>, <<"i'm", "I'm">>, <<"my", "My">>, <<"it", "It">>,
      <<"we", "We">>, <<"the", "The">>, <<"traffic", "Traffic">>,
      <<"coffee", "Coffee">>, <<"should", "Should">>,
      <<"always", "Always">>, <<"never", "Never">> }

\* the token with its first character in upper case
UpperFirstTok(t) ==
    IF \E p \in CapitalForms : p[1] = t
    THEN (CHOOSE p \in CapitalForms : p[1] = t)[2]
    ELSE t

\* str.lower()
Lower(text) == [k \in DOMAIN text |-> LowerTok(text[k])]

RECURSIVE LStrip(_)
LStrip(text) ==
    IF text # <<>> /\ Head(text) = "" THEN LStrip(Tail(text)) ELSE text

RECURSIVE RStrip(_)
RStrip(text) ==
    IF text # <<>> /\ text[Len(text)] = ""
    THEN RStrip(SubSeq(text, 1, Len(text) - 1))
    ELSE text

\* str.strip(): the spaces around an empty token go
Strip(text) == RStrip(LStrip(text))

\* str.capitalize(): first character upper case, the rest lower case
Capitalize(text) ==
    IF text = <<>> THEN text
    ELSE <<UpperFirstTok(LowerTok(text[1]))>> \o Lower(Tail(text))

\* len(text): the characters of the tokens and the separating spaces
StrLen(text) ==
    SumSeq([k \in DOMAIN text |->
              Len(text[k]) + (IF k > 1 /\ text[k] \notin Punct THEN 1 ELSE 0)])

\* a "." that is followed by whitespace: where re.split(r'[.!?]\s+') cuts
IsCut(text, p) ==
    /\ text[p] = "."
    /\ p < Len(text)
    /\ text[p + 1] \notin Punct

RECURSIVE SplitFrom(_, _, _)
SplitFrom(text, p, cur) ==
    IF p > Len(text) THEN <<cur>>
    ELSE IF IsCut(text, p) THEN <<cur>> \o SplitFrom(text, p + 1, <<>>)
    ELSE SplitFrom(text, p + 1, Append(cur, text[p]))

\* re.split(r'[.!?]\s+', text)
SplitSentences(text) == SplitFrom(text, 1, <<>>)

\* ------------------------------------------------------------------------
\* nltk: word_tokenize, the English stopwords, the VADER sentiment scorer
\* ------------------------------------------------------------------------
\* the Treebank tokenizer cuts a contraction in two
Contractions ==
    { <<"i'm", <<"i", "'m">> >>, <<"it's", <<"it", "'s">> >>,
      <<"can't", <<"ca", "n't">> >> }

TokenizeTok(t) ==
    IF t = "" THEN <<>>
    ELSE IF \E c \in Contractions : c[1] = t
    THEN (CHOOSE c \in Contractions : c[1] = t)[2]
    ELSE <<t>>

\* set(word_tokenize(text.lower())): punctuation marks are tokens too
WordSet(text) ==
    UNION { Range(TokenizeTok(LowerTok(text[k]))) : k \in DOMAIN text }

\* stopwords.words('english'), the ones the texts of the model can hold
StopWords ==
    { "i", "me", "my", "we", "you", "it", "this", "that", "am", "is", "are",
      "was", "be", "have", "do", "a", "an", "the", "and", "but", "of", "at",
      "for", "with", "to", "in", "on", "not", "so", "very", "s", "t", "can",
      "will", "just", "should", "now" }

\* ------------------------------------------------------------------------
\* PersonaAnalyzer.__init__: the configuration of an instance
\* ------------------------------------------------------------------------
\* a keyword is the sequence of its words
frustration_keywords ==
    << <<"annoying">>, <<"frustrating">>, <<"hate">>, <<"tired", "of">>,
       <<"sick", "of">>, <<"annoyed">>, <<"difficult">>, <<"problem">>,
       <<"issue">>, <<"struggle">>, <<"challenging">>, <<"impossible">>,
       <<"irritating">>, <<"bothers">>, <<"fed", "up">>, <<"upset">>,
       <<"angry">>, <<"disappointed">> >>

goal_keywords ==
    << <<"goal">>, <<"plan">>, <<"aim">>, <<"objective">>, <<"target">>,
       <<"aspiration">>, <<"ambition">>, <<"dream">>, <<"hope">>,
       <<"want", "to">>, <<"would", "like", "to">>, <<"trying", "to">>,
       <<"working", "on">>, <<"looking", "to">>, <<"intend", "to">>,
       <<"need", "to">>, <<"must">>, <<"should">> >>

habit_keywords ==
    << <<"always">>, <<"usually">>, <<"often">>, <<"regularly">>,
       <<"routine">>, <<"habit">>, <<"daily">>, <<"weekly">>, <<"monthly">>,
       <<"every", "day">>, <<"every", "week">>, <<"every", "month">>,
       <<"constantly">>, <<"frequently">>, <<"rarely">>, <<"never">>,
       <<"sometimes">>, <<"occasionally">> >>

\* per dimension: <<name, left keywords, right keywords>>
personality_dimensions ==
    << <<"introvert_extrovert",
         << <<"quiet">>, <<"shy">>, <<"reserved">>, <<"private">>,
            <<"alone">>, <<"introvert">>, <<"solitude">>,
            <<"independent">> >>,
         << <<"outgoing">>, <<"social">>, <<"talkative">>, <<"energetic">>,
            <<"extrovert">>, <<"people", "person">>, <<"party">>,
            <<"group">> >> >>,
       <<"intuition_sensing",
         << <<"abstract">>, <<"theoretical">>, <<"imagine">>,
            <<"possibility">>, <<"future">>, <<"innovative">>,
            <<"creative">> >>,
         << <<"practical">>, <<"detail">>, <<"fact">>, <<"reality">>,
            <<"present">>, <<"concrete">>, <<"specific">>,
            <<"literal">> >> >>,
       <<"feeling_thinking",
         << <<"emotion">>, <<"feel">>, <<"empathy">>, <<"compassion">>,
            <<"harmony">>, <<"value">>, <<"personal">> >>,
         << <<"logic">>, <<"rational">>, <<"objective">>, <<"analyze">>,
            <<"principle">>, <<"fair">>, <<"reasonable">> >> >>,
       <<"perceiving_judging",
         << <<"flexible">>, <<"adaptable">>, <<"spontaneous">>,
            <<"open-ended">>, <<"casual">>, <<"improvise">> >>,
         << <<"organized">>, <<"plan">>, <<"structure">>, <<"decisive">>,
            <<"systematic">>, <<"orderly">>, <<"schedule">> >> >> >>

\* the attributes of a new instance (the compiled patterns are the
\* operators AgeSearch, LocationSearch and OccupationSearch below)
NewAnalyzer ==
    [ stop_words |-> StopWords,
      frustration_keywords |-> frustration_keywords,
      goal_keywords |-> goal_keywords,
      habit_keywords |-> habit_keywords,
      personality_dimensions |-> personality_dimensions ]


\* the words left after words.difference(self.stop_words)
ContentWords(text) == WordSet(text) \ self.stop_words

\* _text_similarity as a fraction: 0 when either word set is empty, else
\* the Jaccard similarity |A /\ B| / |A \/ B|
TextSimilarity(text1, text2) ==
    LET words1 == ContentWords(text1)
        words2 == ContentWords(text2)
    IN  IF words1 = {} \/ words2 = {}
        THEN [num |-> 0, den |-> 1]
        ELSE [num |-> Cardinality(words1 \cap words2),
              den |-> Cardinality(words1 \cup words2)]

\* a dedup test that lets pairs up to 0.8 through
TooSimilarLoose(text1, text2) ==
    LET sim == TextSimilarity(text1, text2)
    IN  10 * sim.num > 8 * sim.den

\* the dedup test of the miners:  _text_similarity(a, b) > 0.7
TooSimilar(text1, text2) ==
    LET sim == TextSimilarity(text1, text2)
    IN  10 * sim.num > 7 * sim.den

\* any(self._text_similarity(text, b) > 0.7 for b in texts)
IsDuplicate(text, texts) == \E b \in texts : TooSimilar(text, b)

\* VADER valences of the lexicon words of the model, times ten
Lexicon ==
    { <<"hate", -27>>, <<"annoying", -17>>, <<"problem", -17>>,
      <<"love", 32>>, <<"enjoy", 22>>, <<"easy", 19>>, <<"healthy", 17>>,
      <<"like", 15>>, <<"creative", 19>>, <<"hope", 19>> }

Valence(t) ==
    IF \E e \in Lexicon : e[1] = t
    THEN (CHOOSE e \in Lexicon : e[1] = t)[2]
    ELSE 0

\* the words VADER scores: no punctuation, no empty token
ScoredWords(text) ==
    SelectSeq(Lower(text), LAMBDA t : t \notin Punct /\ t # "")

\* polarity_scores(text): pos and neg are the shares of the positive and of
\* the negative words in the text, every scored word weighing |valence| + 1
\* and every neutral word 1 (all times ten)
PolarityScores(text) ==
    LET w == ScoredWords(text)
        posSum == SumSeq([k \in DOMAIN w |->
                     IF Valence(w[k]) > 0 THEN Valence(w[k]) + 10 ELSE 0])
        negSum == SumSeq([k \in DOMAIN w |->
                     IF Valence(w[k]) < 0 THEN 10 - Valence(w[k]) ELSE 0])
        neuSum == SumSeq([k \in DOMAIN w |->
                     IF Valence(w[k]) = 0 THEN 10 ELSE 0])
        total == posSum + negSum + neuSum
    IN  [pos |-> posSum, neg |-> negSum, total |-> total]

\* sentiment['neg'] > 0.2
NegAbove(text) ==
    LET s == PolarityScores(text) IN s.total > 0 /\ 10 * s.neg > 2 * s.total

\* sent_score['pos'] > 0.1
PosAbove(text) ==
    LET s == PolarityScores(text) IN s.total > 0 /\ 10 * s.pos > s.total

\* ------------------------------------------------------------------------
\* Keyword search: `keyword in text` and re.findall(r'\b' + keyword + r'\b')
\* ------------------------------------------------------------------------
\* words of the model that hold a shorter keyword inside: <<word, keyword>>
Inside ==
    { <<"breakfast", "fast">>, <<"planning", "plan">>,
      <<"dislike", "like">>, <<"hateful", "hate">> }

\* keyword in token, for a one-word keyword
TokHas(t, w) == t = w \/ <<t, w>> \in Inside

\* the keyword (a sequence of words) is written at position p of the text
KeywordAt(kw, text, p) ==
    /\ p + Len(kw) - 1 <= Len(text)
    /\ IF Len(kw) = 1 THEN TokHas(text[p], kw[1])
       ELSE \A j \in 1..Len(kw) : text[p + j - 1] = kw[j]

\* keyword in text (substring search)
KeywordIn(kw, text) == \E p \in DOMAIN text : KeywordAt(kw, text, p)

\* len(re.findall(r'\b' + re.escape(keyword) + r'\b', text)): whole words
CountWord(kw, text) ==
    Cardinality({p \in DOMAIN text :
        /\ p + Len(kw) - 1 <= Len(text)
        /\ \A j \in 1..Len(kw) : text[p + j - 1] = kw[j]})


\* ------------------------------------------------------------------------
\* Timestamps.  A created_utc value is [k, t]: k tells what
\* datetime.fromisoformat makes of the value ("empty": the empty string,
\* skipped as falsy; "bad": a string that raises ValueError; "nonstr": a
\* value that is no string, such as an epoch number, which raises
\* TypeError; "naive": a datetime without offset; "aware": a datetime with
\* a UTC offset) and t is the time in hours since a Monday 00:00.
\* ------------------------------------------------------------------------
EmptyStamp == [k |-> "empty", t |-> 0]

Parses(ts) == ts.k \in {"naive", "aware"}

DayNames ==
    <<"Monday", "Tuesday", "Wednesday", "Thursday", "Friday", "Saturday",
      "Sunday">>

\* ts.strftime('%A')
DayName(t) == DayNames[((t \div 24) % 7) + 1]

\* ts.hour
HourOf(t) == t % 24

Plural(n) == IF n # 1 THEN "s" ELSE ""

\* _calculate_account_age; created is [present, ts]
CalculateAccountAge(hasCreated, created, clock) ==
    IF ~hasCreated \/ created.k = "empty" THEN <<"Unknown">>
    ELSE IF created.k # "naive" THEN <<"Unknown">>   \* caught exception
    ELSE LET days   == (clock - created.t) \div 24
             years  == days \div 365
             months == (days % 365) \div 30
         IN  IF years > 0
             THEN <<ToString(years), "year" \o Plural(years),
                    ToString(months), "month" \o Plural(months)>>
             ELSE <<ToString(months), "month" \o Plural(months)>>

\* ------------------------------------------------------------------------
\* collections.Counter
\* ------------------------------------------------------------------------
CountOf(x, s) == Cardinality({k \in DOMAIN s : s[k] = x})

\* the keys of a Counter fed with s, in insertion order: each element of
\* s that is not in seen, where it occurs first
DistinctIn(s, seen) ==
    LET placed == [k \in DOMAIN s |-> <<k, s[k]>>]
        first  == SelectSeq(placed,
                      LAMBDA e : /\ e[2] \notin seen
                                 /\ \A j \in 1..(e[1] - 1) : s[j] # e[2])
    IN  [k \in DOMAIN first |-> first[k][2]]

RECURSIVE InsertByCount(_, _)
\* e goes behind every entry whose count is not smaller
InsertByCount(sorted, e) ==
    IF sorted = <<>> THEN <<e>>
    ELSE IF Head(sorted)[2] >= e[2]
    THEN <<Head(sorted)>> \o InsertByCount(Tail(sorted), e)
    ELSE <<e>> \o sorted

\* Counter(s).most_common(n): <<key, count>> by falling count, keys of
\* equal count in insertion order
MostCommon(s, n) ==
    LET keys    == DistinctIn(s, {})
        entries == [k \in DOMAIN keys |-> <<keys[k], CountOf(keys[k], s)>>]
    IN  Take(FoldLeft(InsertByCount, <<>>, entries), n)

TopSubreddits == 10

\* a count that goes through the comments before the posts
GetActiveSubredditsCommentsFirst(posts, comments) ==
    LET all   == comments \o posts
        named == SelectSeq(all, LAMBDA x : "subreddit" \in DOMAIN x
                                           /\ x["subreddit"] # "")
        names == [k \in DOMAIN named |-> named[k]["subreddit"]]
        top   == MostCommon(names, TopSubreddits)
    IN  [k \in DOMAIN top |-> [name |-> top[k][1], count |-> top[k][2]]]

\* _get_active_subreddits
GetActiveSubreddits(posts, comments) ==
    LET all   == posts \o comments
        named == SelectSeq(all, LAMBDA x : "subreddit" \in DOMAIN x
                                           /\ x["subreddit"] # "")
        names == [k \in DOMAIN named |-> named[k]["subreddit"]]
        top   == MostCommon(names, TopSubreddits)
    IN  [k \in DOMAIN top |-> [name |-> top[k][1], count |-> top[k][2]]]

RECURSIVE InsertByTime(_, _)
InsertByTime(sorted, ts) ==
    IF sorted = <<>> THEN <<ts>>
    ELSE IF Head(sorted).t <= ts.t
    THEN <<Head(sorted)>> \o InsertByTime(Tail(sorted), ts)
    ELSE <<ts>> \o sorted

TopDays == 3

LowBelow == 10

ModerateBelow == 50

\* tiers that take the limits in
ActivityLevelInclusive(n) ==
    IF n <= LowBelow THEN "Low"
    ELSE IF n <= ModerateBelow THEN "Moderate"
    ELSE "High"

\* lines 302-307: the activity level of n parsed timestamps
ActivityLevel(n) ==
    IF n < LowBelow THEN "Low"
    ELSE IF n < ModerateBelow THEN "Moderate"
    ELSE "High"

\* _analyze_posting_frequency: [raises, value].  Only ValueError is caught
\* around fromisoformat, so a value that is no string raises TypeError; and
\* timestamps.sort() raises TypeError when it compares a naive datetime
\* with an aware one
AnalyzePostingFrequency(posts, comments) ==
    LET all     == posts \o comments
        nonstr  == \E k \in DOMAIN all :
                       /\ "created_utc" \in DOMAIN all[k]
                       /\ all[k]["created_utc"].k = "nonstr"
        stamped == SelectSeq(all, LAMBDA x : "created_utc" \in DOMAIN x
                                             /\ Parses(x["created_utc"]))
        timestamps == [k \in DOMAIN stamped |-> stamped[k]["created_utc"]]
        kinds   == {timestamps[k].k : k \in DOMAIN timestamps}
        sorted  == FoldLeft(InsertByTime, <<>>, timestamps)
        days    == MostCommon([k \in DOMAIN sorted |-> DayName(sorted[k].t)],
                              TopDays)
        hours   == MostCommon([k \in DOMAIN sorted |-> HourOf(sorted[k].t)],
                              TopDays)
        level   == ActivityLevel(Len(sorted))
    IN  IF nonstr
        THEN [raises |-> "TypeError", value |-> <<>>]
        ELSE IF timestamps = <<>>
        THEN [raises |-> "",
              value |-> [activity_level |-> "Unknown",
                         most_active_days |-> <<>>,
                         most_active_hours |-> <<>>]]
        ELSE IF Cardinality(kinds) > 1
        THEN [raises |-> "TypeError", value |-> <<>>]
        ELSE [raises |-> "",
              value |-> [activity_level |-> level,
                         most_active_days |->
                             [k \in DOMAIN days |->
                                 [day |-> days[k][1], count |-> days[k][2]]],
                         most_active_hours |->
                             [k \in DOMAIN hours |->
                                 [hour |-> hours[k][1],
                                  count |-> hours[k][2]]]]]

\* ------------------------------------------------------------------------
\* analyze, lines 142-165: the text items
\* ------------------------------------------------------------------------
\* f"{title} {text}": an empty part leaves the joining space alone
JoinTitleText(title, text) ==
    (IF title = <<>> THEN <<"">> ELSE title)
        \o (IF text = <<>> THEN <<"">> ELSE text)

PostItem(post) ==
    [ text |-> JoinTitleText(Get(post, "title", <<>>), Get(post, "text", <<>>)),
      source |-> "post",
      url |-> Get(post, "url", ""),
      subreddit |-> Get(post, "subreddit", ""),
      created_utc |-> Get(post, "created_utc", EmptyStamp),
      score |-> Get(post, "score", 0) ]

CommentItem(comment) ==
    [ text |-> Get(comment, "body", <<>>),
      source |-> "comment",
      url |-> Get(comment, "url", ""),
      subreddit |-> Get(comment, "subreddit", ""),
      created_utc |-> Get(comment, "created_utc", EmptyStamp),
      score |-> Get(comment, "score", 0) ]

\* a normalization that puts the comments before the posts
TextItemsCommentsFirst(posts, comments) ==
    [k \in DOMAIN comments |-> CommentItem(comments[k])]
        \o [k \in DOMAIN posts |-> PostItem(posts[k])]

TextItems(posts, comments) ==
    [k \in DOMAIN posts |-> PostItem(posts[k])]
        \o [k \in DOMAIN comments |-> CommentItem(comments[k])]


\* ------------------------------------------------------------------------
\* _extract_demographics.  None is <<>>; a value and a citation are kept in
\* a one-element sequence; a confidence is kept in hundredths.
\* ------------------------------------------------------------------------
None == <<>>

\* int(...) of the one- and two-digit numbers of the model
Numbers ==
    { <<"5", 5>>, <<"12", 12>>, <<"13", 13>>, <<"25", 25>>, <<"90", 90>>,
      <<"91", 91>> }

IsNumber(t) == \E n \in Numbers : n[1] = t

IntOf(t) == (CHOOSE n \in Numbers : n[1] = t)[2]

\* the text holds the words ws (compared in lower case) from position p on
WordsAt(ws, text, p) ==
    /\ p + Len(ws) - 1 <= Len(text)
    /\ \A j \in 1..Len(ws) : LowerTok(text[p + j - 1]) = ws[j]

\* the same, compared as written
ExactAt(ws, text, p) ==
    /\ p + Len(ws) - 1 <= Len(text)
    /\ \A j \in 1..Len(ws) : text[p + j - 1] = ws[j]

\* where a match of one of the alternatives alts at p ends, 0 if none does
\* (the alternatives of the patterns never start alike, so at most one does)
EndOfAny(alts, text, p) ==
    IF \E a \in alts : WordsAt(a, text, p)
    THEN p + Len(CHOOSE a \in alts : WordsAt(a, text, p))
    ELSE 0

AgeUnits == { <<"years", "old">>, <<"year", "old">>, <<"yo">> }

\* self.age_pattern matches at p: (I am|I'm) <number> (years old|yo)
AgeAt(text, p) ==
    LET q == EndOfAny({ <<"i", "am">>, <<"i'm">> }, text, p)
    IN  /\ q # 0
        /\ q <= Len(text)
        /\ IsNumber(text[q])
        /\ EndOfAny(AgeUnits, text, q + 1) # 0

MinOf(S) == CHOOSE x \in S : \A y \in S : x <= y

\* self.age_pattern.search(text): the leftmost match
AgeSearch(text) ==
    LET at == {p \in DOMAIN text : AgeAt(text, p)}
    IN  IF at = {} THEN [found |-> FALSE, age |-> 0]
        ELSE LET p == MinOf(at)
                 q == EndOfAny({ <<"i", "am">>, <<"i'm">> }, text, p)
             IN  [found |-> TRUE, age |-> IntOf(text[q])]

\* the words of the model that [A-Z][a-z]+ matches
ProperWords == {"Seattle", "New", "York", "My", "It", "Art", "Funny"}

RECURSIVE TakeWhileProper(_, _)
TakeWhileProper(text, p) ==
    IF p <= Len(text) /\ text[p] \in ProperWords
    THEN <<text[p]>> \o TakeWhileProper(text, p + 1)
    ELSE <<>>

\* where the residency phrase that starts at p ends (case matters), or 0
ResidencyEnd(text, p) ==
    IF /\ p + 2 <= Len(text)
       /\ text[p] = "I"
       /\ <<text[p + 1], text[p + 2]>> \in
              { <<"am", "from">>, <<"live", "in">>, <<"reside", "in">>,
                <<"currently", "in">> }
    THEN p + 3 ELSE 0

LocationAt(text, p) ==
    /\ ResidencyEnd(text, p) # 0
    /\ TakeWhileProper(text, ResidencyEnd(text, p)) # <<>>

\* self.location_pattern.search(text)
LocationSearch(text) ==
    LET at == {p \in DOMAIN text : LocationAt(text, p)}
    IN  IF at = {} THEN [found |-> FALSE, location |-> <<>>]
        ELSE [found |-> TRUE,
              location |-> TakeWhileProper(text, ResidencyEnd(text, MinOf(at)))]

\* words that are not letters only, with the letters they start with
Unlettered ==
    { <<"i'm", "i">>, <<"I'm", "I">>, <<"it's", "it">>, <<"can't", "can">>,
      <<"open-ended", "open">>, <<"ex-wife", "ex">>, <<"ex-husband", "ex">> }

IsLettered(t) ==
    /\ t \notin Punct
    /\ t # ""
    /\ ~IsNumber(t)
    /\ ~\E u \in Unlettered : u[1] = t

OccupationWords == 3

RECURSIVE TakeLettered(_, _, _)
\* [a-z]+(?:\s+[a-z]+){0,2}: up to n words, the last one maybe cut short
TakeLettered(text, p, n) ==
    IF n = 0 \/ p > Len(text) THEN <<>>
    ELSE IF IsLettered(text[p])
    THEN <<text[p]>> \o TakeLettered(text, p + 1, n - 1)
    ELSE IF \E u \in Unlettered : u[1] = text[p]
    THEN <<(CHOOSE u \in Unlettered : u[1] = text[p])[2]>>
    ELSE <<>>

\* where the employment phrase and its article end, or 0
EmploymentEnd(text, p) ==
    LET q == IF WordsAt(<<"i", "am", "employed", "as">>, text, p) THEN p + 4
             ELSE IF WordsAt(<<"i", "work", "as">>, text, p) THEN p + 3
             ELSE IF WordsAt(<<"i", "am">>, text, p) THEN p + 2
             ELSE 0
    IN  IF q # 0 /\ q <= Len(text) /\ LowerTok(text[q]) \in {"a", "an", "the"}
        THEN q + 1 ELSE 0

OccupationAt(text, p) ==
    /\ EmploymentEnd(text, p) # 0
    /\ TakeLettered(text, EmploymentEnd(text, p), OccupationWords) # <<>>

\* self.occupation_pattern.search(text)
OccupationSearch(text) ==
    LET at == {p \in DOMAIN text : OccupationAt(text, p)}
    IN  IF at = {} THEN [found |-> FALSE, occupation |-> <<>>]
        ELSE [found |-> TRUE,
              occupation |-> TakeLettered(text,
                                 EmploymentEnd(text, MinOf(at)),
                                 OccupationWords)]

OccupationStoplist ==
    { <<"a">>, <<"the">>, <<"just">>, <<"really">>, <<"very">>, <<"quite">>,
      <<"actually">> }

\* status_indicators, in dict order: <<status, indicators>>
status_indicators ==
    << <<"single", << <<"single">>, <<"bachelor">>, <<"bachelorette">>,
                      <<"unmarried">>, <<"not", "married">> >> >>,
       <<"married", << <<"married">>, <<"wife">>, <<"husband">>,
                       <<"spouse">> >> >>,
       <<"in a relationship", << <<"girlfriend">>, <<"boyfriend">>,
                                 <<"partner">>,
                                 <<"in", "a", "relationship">> >> >>,
       <<"divorced", << <<"divorced">>, <<"ex-wife">>, <<"ex-husband">>,
                        <<"ex", "spouse">> >> >>,
       <<"widowed", << <<"widowed">>, <<"widow">>, <<"widower">> >> >> >>

\* re.compile(r'\b(?:I am|I\'m|my)\s+' + indicator + r'\b').search(text)
IndicatorSearch(indicator, text) ==
    \E p \in DOMAIN text :
        LET q == EndOfAny({ <<"i", "am">>, <<"i'm">>, <<"my">> }, text, p)
        IN  q # 0 /\ WordsAt(indicator, text, q)

AgeConfidence == 90

LocationConfidence == 80

OccupationConfidence == 70

StatusConfidence == 75

MinAge == 13

MaxAge == 90

Field(value, confidence, item) ==
    [value |-> <<value>>, confidence |-> confidence, citation |-> <<item>>]

\* a demographics dict that is kept on the instance from call to call
KeptDemographics ==
    IF calls > 1 /\ DOMAIN demographics # {}
    THEN demographics
    ELSE [f \in {"age", "location", "occupation", "status"} |->
             [value |-> None, confidence |-> 0, citation |-> None]]

\* lines 337-342
NoDemographics ==
    [f \in {"age", "location", "occupation", "status"} |->
        [value |-> None, confidence |-> 0, citation |-> None]]

\* `not demographics[f]['value']`
Unset(dem, f) == dem[f].value = None

\* an age step that clears the field when the age it reads is out of range
AgeStepClearing(dem, item) ==
    LET m == AgeSearch(item.text)
    IN  IF ~m.found THEN dem
        ELSE IF MinAge <= m.age /\ m.age <= MaxAge
        THEN IF Unset(dem, "age")
             THEN [dem EXCEPT !["age"] = Field(m.age, AgeConfidence, item)]
             ELSE dem
        ELSE [dem EXCEPT !["age"] = NoDemographics["age"]]

\* an age step whose range leaves out its two ends
AgeStepStrict(dem, item) ==
    LET m == AgeSearch(item.text)
    IN  IF m.found /\ Unset(dem, "age") /\ MinAge < m.age /\ m.age < MaxAge
        THEN [dem EXCEPT !["age"] = Field(m.age, AgeConfidence, item)]
        ELSE dem

\* lines 348-357
AgeStep(dem, item) ==
    LET m == AgeSearch(item.text)
    IN  IF m.found /\ Unset(dem, "age") /\ MinAge <= m.age /\ m.age <= MaxAge
        THEN [dem EXCEPT !["age"] = Field(m.age, AgeConfidence, item)]
        ELSE dem

\* a location step that cites the matched words instead of the item
LocationStepSnippet(dem, item) ==
    LET m == LocationSearch(item.text)
    IN  IF m.found /\ (Unset(dem, "location")
                       \/ dem["location"].confidence < LocationConfidence)
        THEN [dem EXCEPT !["location"] =
                  Field(m.location, LocationConfidence,
                        [item EXCEPT !.text = m.location])]
        ELSE dem

\* lines 359-367
LocationStep(dem, item) ==
    LET m == LocationSearch(item.text)
    IN  IF m.found /\ (Unset(dem, "location")
                       \/ dem["location"].confidence < LocationConfidence)
        THEN [dem EXCEPT !["location"] =
                  Field(m.location, LocationConfidence, item)]
        ELSE dem

\* an occupation step that lets a later match of equal confidence in
OccupationStepLatest(dem, item) ==
    LET m == OccupationSearch(item.text)
    IN  IF /\ m.found
           /\ (Unset(dem, "occupation")
               \/ dem["occupation"].confidence <= OccupationConfidence)
           /\ Lower(m.occupation) \notin OccupationStoplist
        THEN [dem EXCEPT !["occupation"] =
                  Field(m.occupation, OccupationConfidence, item)]
        ELSE dem

\* lines 369-379
OccupationStep(dem, item) ==
    LET m == OccupationSearch(item.text)
    IN  IF /\ m.found
           /\ (Unset(dem, "occupation")
               \/ dem["occupation"].confidence < OccupationConfidence)
           /\ Lower(m.occupation) \notin OccupationStoplist
        THEN [dem EXCEPT !["occupation"] =
                  Field(m.occupation, OccupationConfidence, item)]
        ELSE dem

\* an indicator test that lets a later match of equal confidence in
IndicatorStepLatest(dem, item, status, indicator) ==
    IF /\ IndicatorSearch(indicator, item.text)
       /\ (Unset(dem, "status")
           \/ dem["status"].confidence <= StatusConfidence)
    THEN [dem EXCEPT !["status"] = Field(status, StatusConfidence, item)]
    ELSE dem

\* lines 390-398: one (status, indicator) pair of the double loop
IndicatorStep(dem, item, status, indicator) ==
    IF /\ IndicatorSearch(indicator, item.text)
       /\ (Unset(dem, "status")
           \/ dem["status"].confidence < StatusConfidence)
    THEN [dem EXCEPT !["status"] = Field(status, StatusConfidence, item)]
    ELSE dem

StatusStep(dem, item) ==
    FoldLeft(LAMBDA d, entry :
                 FoldLeft(LAMBDA d2, indicator :
                              IndicatorStep(d2, item, entry[1], indicator),
                          d, entry[2]),
             dem, status_indicators)

\* the body of the loop over text_items, lines 345-398
DemographicsItem(dem, item) ==
    StatusStep(OccupationStep(LocationStep(AgeStep(dem, item), item), item),
               item)

\* _extract_demographics
ExtractDemographics(text_items) ==
    FoldLeft(DemographicsItem, NoDemographics, text_items)


\* ------------------------------------------------------------------------
\* The three miners: _extract_behaviors_and_habits, _extract_frustrations,
\* _extract_goals_and_needs.  A miner state is [facts, texts]: the list of
\* accepted facts and the set of accepted texts.
\* ------------------------------------------------------------------------
NoFacts == [facts |-> <<>>, texts |-> {}]

\* texts.add(text); facts.append({description, citation})
Accept(st, text, item) ==
    [facts |-> Append(st.facts,
                      [description |-> Capitalize(Strip(text)),
                       citation |-> item]),
     texts |-> st.texts \cup {text}]

\* the test of strategy (a) for one sentence
KeepSentence(st, kw, sentence, minLen) ==
    /\ KeywordIn(kw, sentence)
    /\ StrLen(sentence) > minLen
    /\ ~IsDuplicate(sentence, st.texts)

\* strategy (a): for keyword in keywords: if keyword in text:
\*                   for sentence in re.split(...): ...
KeywordSentences(st, item, text, keywords, minLen) ==
    FoldLeft(LAMBDA s1, kw :
                 IF KeywordIn(kw, text)
                 THEN FoldLeft(LAMBDA s2, sentence :
                                   IF KeepSentence(s2, kw, sentence, minLen)
                                   THEN Accept(s2, sentence, item)
                                   ELSE s2,
                               s1, SplitSentences(text))
                 ELSE s1,
             st, keywords)

RECURSIVE ClauseEnd(_, _)
\* the last position of the run [^.,!?;]+ that starts at p
ClauseEnd(text, p) ==
    IF p + 1 <= Len(text) /\ text[p + 1] \notin Punct
    THEN ClauseEnd(text, p + 1)
    ELSE p

\* r'\b<prefix>\s+([^.,!?;]+)' matches at p
TemplateAt(prefix, text, p) ==
    /\ WordsAt(prefix, text, p)
    /\ p + Len(prefix) <= Len(text)
    /\ text[p + Len(prefix)] \notin Punct \cup {""}

RECURSIVE FindIter(_, _, _)
\* [m.group(0) for m in re.finditer(pattern, text, re.IGNORECASE)]
FindIter(prefix, text, p) ==
    IF p > Len(text) THEN <<>>
    ELSE IF TemplateAt(prefix, text, p)
    THEN LET e == ClauseEnd(text, p + Len(prefix))
         IN  <<SubSeq(text, p, e)>> \o FindIter(prefix, text, e + 1)
    ELSE FindIter(prefix, text, p + 1)

MinPhrase == 10

\* strategy (b): for pattern in patterns: for match in finditer: ...
\* lead is what the miner writes before the match ("I " for the habits)
TemplatePhrases(st, item, text, patterns, lead) ==
    FoldLeft(LAMBDA s1, prefix :
                 FoldLeft(LAMBDA s2, match :
                              LET phrase == lead \o match
                              IN  IF /\ StrLen(phrase) > MinPhrase
                                     /\ ~IsDuplicate(phrase, s2.texts)
                                  THEN Accept(s2, phrase, item)
                                  ELSE s2,
                          s1, FindIter(prefix, text, 1)),
             st, patterns)

habit_patterns ==
    << <<"i", "always">>, <<"i", "usually">>, <<"i", "often">>,
       <<"i", "never">>, <<"i", "regularly">>, <<"i", "tend", "to">>,
       <<"i", "like", "to">> >>

frustration_patterns ==
    << <<"i", "hate">>, <<"i", "can't", "stand">>, <<"i'm", "tired", "of">>,
       <<"i'm", "sick", "of">>, <<"it's", "frustrating">>,
       <<"it", "annoys", "me">> >>

goal_patterns ==
    << <<"i", "want", "to">>, <<"i", "need", "to">>, <<"my", "goal", "is">>,
       <<"i'm", "trying", "to">>, <<"i", "hope", "to">>,
       <<"i", "wish", "i", "could">> >>

MinHabitSentence == 20

MinSentence == 15

MaxFacts == 10

\* the body of the loop of _extract_behaviors_and_habits, lines 416-454
BehaviorItem(st, item) ==
    LET text == Lower(item.text)
        a == KeywordSentences(st, item, text, self.habit_keywords,
                              MinHabitSentence)
    IN  TemplatePhrases(a, item, text, habit_patterns, <<"I">>)

\* _extract_behaviors_and_habits
ExtractBehaviorsAndHabits(text_items) ==
    Take(FoldLeft(BehaviorItem, NoFacts, text_items).facts, MaxFacts)

\* a frustration miner that scans every item for keyword sentences
FrustrationItemUngated(st, item) ==
    LET text == Lower(item.text)
        a == KeywordSentences(st, item, text, self.frustration_keywords,
                              MinSentence)
    IN  TemplatePhrases(a, item, text, frustration_patterns, <<>>)

\* the body of the loop of _extract_frustrations, lines 473-515
FrustrationItem(st, item) ==
    LET text == Lower(item.text)
        a == IF NegAbove(text)
             THEN KeywordSentences(st, item, text, self.frustration_keywords,
                                   MinSentence)
             ELSE st
    IN  TemplatePhrases(a, item, text, frustration_patterns, <<>>)

\* _extract_frustrations
ExtractFrustrations(text_items) ==
    Take(FoldLeft(FrustrationItem, NoFacts, text_items).facts, MaxFacts)

\* the body of the loop of _extract_goals_and_needs, lines 601-638
GoalItem(st, item) ==
    LET text == Lower(item.text)
        a == KeywordSentences(st, item, text, self.goal_keywords, MinSentence)
    IN  TemplatePhrases(a, item, text, goal_patterns, <<>>)

\* a goal miner that returns every accepted fact
ExtractGoalsAndNeedsUncapped(text_items) ==
    FoldLeft(GoalItem, NoFacts, text_items).facts

\* _extract_goals_and_needs
ExtractGoalsAndNeeds(text_items) ==
    Take(FoldLeft(GoalItem, NoFacts, text_items).facts, MaxFacts)


\* ------------------------------------------------------------------------
\* _extract_motivations
\* ------------------------------------------------------------------------
\* category_keywords, in dict order: <<category, keywords>>
category_keywords ==
    << <<"convenience", << <<"convenient">>, <<"easy">>, <<"simple">>,
                           <<"quick">>, <<"efficient">>, <<"hassle-free">>,
                           <<"straightforward">> >> >>,
       <<"wellness", << <<"healthy">>, <<"nutrition">>, <<"fitness">>,
                        <<"wellbeing">>, <<"exercise">>, <<"diet">>,
                        <<"organic">>, <<"natural">> >> >>,
       <<"speed", << <<"fast">>, <<"quick">>, <<"rapid">>, <<"instant">>,
                     <<"immediate">>, <<"promptly">>, <<"speedily">>,
                     <<"swift">> >> >>,
       <<"preferences", << <<"prefer">>, <<"like">>, <<"enjoy">>,
                           <<"favorite">>, <<"choice">>, <<"rather">>,
                           <<"option">>, <<"selection">> >> >>,
       <<"comfort", << <<"comfortable">>, <<"cozy">>, <<"relaxing">>,
                       <<"pleasant">>, <<"soothing">>, <<"satisfying">>,
                       <<"content">> >> >>,
       <<"dietary_needs", << <<"vegetarian">>, <<"vegan">>, <<"gluten-free">>,
                             <<"dairy-free">>, <<"allergy">>,
                             <<"intolerance">>, <<"diet">> >> >> >>

Categories == {category_keywords[k][1] : k \in DOMAIN category_keywords}

\* lines 531-538
NoMotivations == [c \in Categories |-> [score |-> 0, citations |-> <<>>]]

\* a count that does not look at the sentiment of the sentence
MotivationSentenceUngated(m, item, category, sentence) ==
    [m EXCEPT ![category] =
        [score |-> @.score + 1,
         citations |-> IF InList(item, @.citations) THEN @.citations
                       ELSE Append(@.citations, item)]]

\* lines 568-572: one sentence that holds the keyword
MotivationSentence(m, item, category, sentence) ==
    IF PosAbove(sentence)
    THEN [m EXCEPT ![category] =
             [score |-> @.score + 1,
              citations |-> IF InList(item, @.citations) THEN @.citations
                            ELSE Append(@.citations, item)]]
    ELSE m

\* lines 559-572: one keyword of a category
MotivationKeyword(m, item, text, category, kw) ==
    IF KeywordIn(kw, text)
    THEN FoldLeft(LAMBDA m2, sentence :
                      IF KeywordIn(kw, sentence)
                      THEN MotivationSentence(m2, item, category, sentence)
                      ELSE m2,
                  m, SplitSentences(text))
    ELSE m

\* the body of the loop over text_items, lines 551-572
MotivationItem(m, item) ==
    LET text == Lower(item.text)
    IN  FoldLeft(LAMBDA m1, entry :
                     FoldLeft(LAMBDA m2, kw :
                                  MotivationKeyword(m2, item, text,
                                                    entry[1], kw),
                              m1, entry[2]),
                 m, category_keywords)

MaxOf(S) == CHOOSE x \in S : \A y \in S : x >= y

MinInt(a, b) == IF a < b THEN a ELSE b

TopScore == 10

MaxCitations == 3

\* a normalization to per cent instead of to tenths
NormalizePercent(raw, max_score) == (raw * TopScore * TopScore) \div max_score

\* a normalization that rounds to the nearest integer
NormalizeRounded(raw, max_score) ==
    MinInt(TopScore, (2 * raw * TopScore + max_score) \div (2 * max_score))

\* min(10, int((raw_score / max_score) * 10))
Normalize(raw, max_score) == MinInt(TopScore, (raw * TopScore) \div max_score)

\* a normalization by the sum of the counters instead of their maximum
NormalizeMotivationsByTotal(m) ==
    LET total     == SumSeq([k \in DOMAIN category_keywords |->
                                m[category_keywords[k][1]].score])
        max_score == IF total > 0 THEN total ELSE 1
    IN  [c \in Categories |->
            [score |-> Normalize(m[c].score, max_score),
             citations |-> Take(m[c].citations, MaxCitations)]]

\* lines 574-583
NormalizeMotivations(m) ==
    LET raws      == {m[c].score : c \in Categories}
        max_score == IF \E r \in raws : r > 0 THEN MaxOf(raws) ELSE 1
    IN  [c \in Categories |->
            [score |-> IF max_score > 0
                       THEN Normalize(m[c].score, max_score) ELSE 0,
             citations |-> Take(m[c].citations, MaxCitations)]]

\* the raw counters after the loop over text_items
RawMotivations(text_items) == FoldLeft(MotivationItem, NoMotivations, text_items)

\* _extract_motivations
ExtractMotivations(text_items) == NormalizeMotivations(RawMotivations(text_items))

\* ------------------------------------------------------------------------
\* _analyze_personality
\* ------------------------------------------------------------------------
RECURSIVE Flatten(_)
\* ' '.join(texts)
Flatten(texts) ==
    IF texts = <<>> THEN <<>>
    ELSE IF Len(texts) = 1 THEN texts[1]
    ELSE Flatten(SubSeq(texts, 1, Len(texts) \div 2))
             \o Flatten(SubSeq(texts, Len(texts) \div 2 + 1, Len(texts)))

\* sum of len(re.findall(r'\b' + keyword + r'\b', all_text)) over keywords
CountKeywords(keywords, all_text) ==
    SumSeq([k \in DOMAIN keywords |-> CountWord(keywords[k], all_text)])

\* lines 681-684 and 692-695: the citations one keyword adds
CiteKeyword(citations, kw, text_items) ==
    FoldLeft(LAMBDA c, item :
                 IF CountWord(kw, Lower(item.text)) > 0 /\ ~InList(item, c)
                 THEN Append(c, item) ELSE c,
             citations, text_items)

NeutralScore == 50

Percent == 100

\* int((right_count / total) * 100), 50 when no keyword occurs
DimensionScore(left_count, right_count) ==
    IF left_count + right_count > 0
    THEN (right_count * Percent) \div (left_count + right_count)
    ELSE NeutralScore

\* one dimension: lines 666-705
AnalyzeDimension(dimension, text_items) ==
    LET all_text == Flatten([k \in DOMAIN text_items |->
                                Lower(text_items[k].text)])
        cites == FoldLeft(LAMBDA c, kw : CiteKeyword(c, kw, text_items),
                          <<>>, dimension[2] \o dimension[3])
    IN  [score |-> DimensionScore(CountKeywords(dimension[2], all_text),
                                  CountKeywords(dimension[3], all_text)),
         citations |-> Take(cites, MaxCitations)]

DimensionNames ==
    {"introvert_extrovert", "intuition_sensing", "feeling_thinking",
     "perceiving_judging"}

\* _analyze_personality
AnalyzePersonality(text_items) ==
    [d \in DimensionNames |->
        LET dims == self.personality_dimensions
            k == CHOOSE j \in DOMAIN dims : dims[j][1] = d
        IN  AnalyzeDimension(dims[k], text_items)]


\* ------------------------------------------------------------------------
\* _determine_archetype
\* ------------------------------------------------------------------------
\* archetypes, in dict order: <<name, traits, subreddits>>
archetypes ==
    << <<"The Creator",
         << <<"creative">>, <<"artistic">>, <<"innovative">>,
            <<"expressive">>, <<"original">> >>,
         <<"art", "design", "writing", "crafts", "DIY", "photography">> >>,
       <<"The Caregiver",
         << <<"nurturing">>, <<"supportive">>, <<"helpful">>,
            <<"compassionate">>, <<"generous">> >>,
         <<"parenting", "relationships", "caregiving", "nursing",
           "teaching">> >>,
       <<"The Explorer",
         << <<"adventurous">>, <<"curious">>, <<"independent">>,
            <<"free-spirited">>, <<"pioneering">> >>,
         <<"travel", "hiking", "outdoors", "backpacking", "camping",
           "EarthPorn">> >>,
       <<"The Sage",
         << <<"knowledgeable">>, <<"wise">>, <<"analytical">>,
            <<"thoughtful">>, <<"intellectual">> >>,
         <<"science", "philosophy", "history", "askscience",
           "explainlikeimfive">> >>,
       <<"The Rebel",
         << <<"unconventional">>, <<"revolutionary">>, <<"disruptive">>,
            <<"challenging">>, <<"radical">> >>,
         <<"unpopularopinion", "changemyview", "politics", "conspiracy">> >>,
       <<"The Hero",
         << <<"brave">>, <<"determined">>, <<"resilient">>,
            <<"protective">>, <<"strong">> >>,
         <<"fitness", "GetMotivated", "MilitaryStories",
           "HumansBeingBros">> >>,
       <<"The Jester",
         << <<"humorous">>, <<"playful">>, <<"entertaining">>,
            <<"light-hearted">>, <<"witty">> >>,
         <<"funny", "jokes", "memes", "humor", "standupcomedy">> >>,
       <<"The Everyman",
         << <<"relatable">>, <<"authentic">>, <<"grounded">>,
            <<"practical">>, <<"regular">> >>,
         <<"CasualConversation", "AskReddit", "NoStupidQuestions",
           "TooAfraidToAsk">> >>,
       <<"The Ruler",
         << <<"organized">>, <<"controlling">>, <<"responsible">>,
            <<"authoritative">>, <<"structured">> >>,
         <<"personalfinance", "productivity", "leadership", "business">> >>,
       <<"The Magician",
         << <<"transformative">>, <<"visionary">>, <<"insightful">>,
            <<"inspiring">>, <<"charismatic">> >>,
         <<"futurology", "technology", "programming", "psychology">> >>,
       <<"The Lover",
         << <<"passionate">>, <<"romantic">>, <<"sensual">>,
            <<"appreciative">>, <<"devoted">> >>,
         <<"relationship_advice", "dating_advice", "sex", "love">> >>,
       <<"The Innocent",
         << <<"optimistic">>, <<"pure">>, <<"trusting">>, <<"hopeful">>,
            <<"moral">> >>,
         <<"wholesomememes", "UpliftingNews", "aww", "MadeMeSmile">> >> >>

ArchetypeNames == [k \in DOMAIN archetypes |-> archetypes[k][1]]

SubredditWeight == 2

\* a subreddit score that compares the names as they are written
SubredditScoreExact(arch, p) ==
    LET active == {p.activity.active_subreddits[k].name :
                      k \in DOMAIN p.activity.active_subreddits}
    IN  SubredditWeight
          * Cardinality({k \in DOMAIN arch[3] : arch[3][k] \in active})

\* lines 775-779: 2 for every subreddit of the archetype that is active
SubredditScore(arch, p) ==
    LET active == {LowerTok(p.activity.active_subreddits[k].name) :
                      k \in DOMAIN p.activity.active_subreddits}
    IN  SubredditWeight
          * Cardinality({k \in DOMAIN arch[3] : LowerTok(arch[3][k]) \in active})

\* lines 783-789: the descriptions, lower case, each followed by a space
FactsText(p) ==
    LET facts == p.behavior_and_habits \o p.frustrations \o p.goals_and_needs
    IN  Flatten([k \in DOMAIN facts |-> Lower(facts[k].description)])

\* lines 792-795
TraitScore(arch, p) == CountKeywords(arch[2], FactsText(p))

LowSide == 40

HighSide == 60

\* lines 801-832: <<dimension, side, archetype, weight>>
PersonalityBonuses ==
    << <<"introvert_extrovert", "low", "The Sage", 2>>,
      <<"introvert_extrovert", "low", "The Creator", 1>>,
      <<"introvert_extrovert", "high", "The Jester", 2>>,
      <<"introvert_extrovert", "high", "The Hero", 1>>,
      <<"introvert_extrovert", "high", "The Lover", 1>>,
      <<"intuition_sensing", "low", "The Magician", 2>>,
      <<"intuition_sensing", "low", "The Creator", 1>>,
      <<"intuition_sensing", "high", "The Everyman", 2>>,
      <<"intuition_sensing", "high", "The Caregiver", 1>>,
      <<"feeling_thinking", "low", "The Lover", 2>>,
      <<"feeling_thinking", "low", "The Caregiver", 2>>,
      <<"feeling_thinking", "low", "The Innocent", 1>>,
      <<"feeling_thinking", "high", "The Ruler", 2>>,
      <<"feeling_thinking", "high", "The Sage", 2>>,
      <<"perceiving_judging", "low", "The Explorer", 2>>,
      <<"perceiving_judging", "low", "The Rebel", 1>>,
      <<"perceiving_judging", "high", "The Ruler", 2>>,
      <<"perceiving_judging", "high", "The Hero", 1>> >>

SideOf(score) ==
    IF score < LowSide THEN "low" ELSE IF score > HighSide THEN "high" ELSE "mid"

BonusScore(name, p) ==
    SumSeq([k \in DOMAIN PersonalityBonuses |->
        LET b == PersonalityBonuses[k]
        IN  IF b[3] = name /\ SideOf(p.personality[b[1]].score) = b[2]
            THEN b[4] ELSE 0])

\* archetype_scores after line 832, in dict order: <<name, score>>
ArchetypeScores(p) ==
    [k \in DOMAIN archetypes |->
        <<archetypes[k][1],
          SubredditScore(archetypes[k], p) + TraitScore(archetypes[k], p)
              + BonusScore(archetypes[k][1], p)>>]

\* a step of max() that lets a later entry of equal score win
BetterOrEqual(best, entry) == IF entry[2] >= best[2] THEN entry ELSE best

\* one step of max(): the entry replaces the best one only if it is greater
Better(best, entry) == IF entry[2] > best[2] THEN entry ELSE best

\* max(items, key=lambda x: x[1])
MaxByScore(items) == FoldLeft(Better, Head(items), Tail(items))

\* a classifier that names no archetype when no archetype scored
UnknownWhenUnscored(p) ==
    LET best == MaxByScore(ArchetypeScores(p))
    IN  IF best[2] = 0 THEN "Unknown" ELSE best[1]

\* _determine_archetype
DetermineArchetype(p) == MaxByScore(ArchetypeScores(p))[1]


\* ------------------------------------------------------------------------
\* analyze as a state machine
\* ------------------------------------------------------------------------
Now0 == 9600

ClockStep == 720

\* the dict parts of the argument, with the defaults of lines 110-114
PostsOf(ud) == Get(ud.d, "posts", <<>>)

CommentsOf(ud) == Get(ud.d, "comments", <<>>)

UserInfoOf(ud) == Get(ud.d, "user_info", <<>>)

\* lines 117-138: the persona before the text is analyzed
InitialPersona(ud, clock, frequency) ==
    LET user_info == UserInfoOf(ud)
    IN  [ basic_info |->
            [ username |-> Get(user_info, "name", ""),
              account_age |->
                  CalculateAccountAge("created_utc" \in DOMAIN user_info,
                                      Get(user_info, "created_utc", EmptyStamp),
                                      clock),
              karma |-> Get(user_info, "comment_karma", 0)
                          + Get(user_info, "link_karma", 0),
              is_gold |-> Get(user_info, "is_gold", FALSE),
              is_mod |-> Get(user_info, "is_mod", FALSE),
              detected_demographics |-> <<>> ],
          activity |->
            [ total_posts |-> Len(PostsOf(ud)),
              total_comments |-> Len(CommentsOf(ud)),
              active_subreddits |->
                  GetActiveSubreddits(PostsOf(ud), CommentsOf(ud)),
              posting_frequency |-> frequency ],
          behavior_and_habits |-> <<>>,
          frustrations |-> <<>>,
          motivations |-> <<>>,
          goals_and_needs |-> <<>>,
          personality |-> <<>>,
          archetype |-> "" ]

TopLevel == {"user_info", "posts", "comments"}

\* a reading of the input that indexes the three collections
ReadInputStrict(ud) ==
    IF ~ud.isdict
    THEN [raises |-> "AttributeError", value |-> <<>>]
    ELSE IF ~(TopLevel \subseteq DOMAIN ud.d)
    THEN [raises |-> "KeyError", value |-> <<>>]
    ELSE AnalyzePostingFrequency(PostsOf(ud), CommentsOf(ud))

\* lines 110-114 and 135: what is read of the input before the persona is
\* built.  user_data.get raises AttributeError when user_data is no dict
\* and _analyze_posting_frequency may raise TypeError.
ReadInput(ud) ==
    IF ud.isdict
    THEN AnalyzePostingFrequency(PostsOf(ud), CommentsOf(ud))
    ELSE [raises |-> "AttributeError", value |-> <<>>]

\* analyze as a function of its argument and of the clock, on an instance
\* with the configuration self: [raises, persona]
Analyze(ud, clock) ==
    LET frequency == ReadInput(ud)
        items == TextItems(PostsOf(ud), CommentsOf(ud))
        p0 == InitialPersona(ud, clock, frequency.value)
        p1 == [p0 EXCEPT
                  !.basic_info.detected_demographics =
                      ExtractDemographics(items),
                  !.behavior_and_habits = ExtractBehaviorsAndHabits(items),
                  !.frustrations = ExtractFrustrations(items),
                  !.motivations = ExtractMotivations(items),
                  !.goals_and_needs = ExtractGoalsAndNeeds(items),
                  !.personality = AnalyzePersonality(items)]
    IN  IF frequency.raises # ""
        THEN [raises |-> frequency.raises, persona |-> <<>>]
        ELSE [raises |-> "",
              persona |-> [p1 EXCEPT !.archetype = DetermineArchetype(p1)]]

\* lines 107-138
AnalyzeBegin ==
    /\ pc = "idle"
    /\ LET frequency == ReadInput(user_data)
       IN  IF frequency.raises # ""
           THEN /\ pc' = "raised"
                /\ error' = frequency.raises
                /\ UNCHANGED persona
           ELSE /\ pc' = "normalize"
                /\ error' = ""
                /\ persona' = InitialPersona(user_data, now, frequency.value)
    /\ UNCHANGED <<self, user_data, now, all_text_items, idx, demographics,
                   calls, returned, cli>>

\* lines 142-165, and lines 337-342 of _extract_demographics
NormalizeItems ==
    /\ pc = "normalize"
    /\ all_text_items' = TextItems(PostsOf(user_data), CommentsOf(user_data))
    /\ demographics' = NoDemographics
    /\ idx' = 1
    /\ pc' = "demographics"
    /\ UNCHANGED <<self, user_data, now, error, persona, calls, returned,
                   cli>>

\* one turn of the loop of _extract_demographics, lines 345-398
DemographicsLoop ==
    /\ pc = "demographics"
    /\ idx <= Len(all_text_items)
    /\ demographics' = DemographicsItem(demographics, all_text_items[idx])
    /\ idx' = idx + 1
    /\ UNCHANGED <<self, user_data, now, pc, error, persona, all_text_items,
                   calls, returned, cli>>

\* line 400 and line 168
DemographicsReturn ==
    /\ pc = "demographics"
    /\ idx > Len(all_text_items)
    /\ persona' = [persona EXCEPT
                      !.basic_info.detected_demographics = demographics]
    /\ pc' = "behaviors"
    /\ UNCHANGED <<self, user_data, now, error, all_text_items, idx,
                   demographics, calls, returned, cli>>

\* line 171
BehaviorsStep ==
    /\ pc = "behaviors"
    /\ persona' = [persona EXCEPT !.behavior_and_habits =
                      ExtractBehaviorsAndHabits(all_text_items)]
    /\ pc' = "frustrations"
    /\ UNCHANGED <<self, user_data, now, error, all_text_items, idx,
                   demographics, calls, returned, cli>>

\* line 174
FrustrationsStep ==
    /\ pc = "frustrations"
    /\ persona' = [persona EXCEPT !.frustrations =
                      ExtractFrustrations(all_text_items)]
    /\ pc' = "motivations"
    /\ UNCHANGED <<self, user_data, now, error, all_text_items, idx,
                   demographics, calls, returned, cli>>

\* line 177
MotivationsStep ==
    /\ pc = "motivations"
    /\ persona' = [persona EXCEPT !.motivations =
                      ExtractMotivations(all_text_items)]
    /\ pc' = "goals"
    /\ UNCHANGED <<self, user_data, now, error, all_text_items, idx,
                   demographics, calls, returned, cli>>

\* a goals step that also drops what the other two miners accepted
GoalsStepShared ==
    /\ pc = "goals"
    /\ persona' = [persona EXCEPT !.goals_and_needs =
                      SelectSeq(ExtractGoalsAndNeeds(all_text_items),
                          LAMBDA g :
                              \A f \in Range(persona.behavior_and_habits)
                                         \cup Range(persona.frustrations) :
                                  ~TooSimilar(g.description, f.description))]
    /\ pc' = "personality"
    /\ UNCHANGED <<self, user_data, now, error, all_text_items, idx,
                   demographics, calls, returned, cli>>

\* a goals step that uses up the keyword list it walks through
GoalsStepConsuming ==
    /\ pc = "goals"
    /\ persona' = [persona EXCEPT !.goals_and_needs =
                      ExtractGoalsAndNeeds(all_text_items)]
    /\ self' = [self EXCEPT !.goal_keywords = <<>>]
    /\ pc' = "personality"
    /\ UNCHANGED <<user_data, now, error, all_text_items, idx,
                   demographics, calls, returned, cli>>

\* line 180
GoalsStep ==
    /\ pc = "goals"
    /\ persona' = [persona EXCEPT !.goals_and_needs =
                      ExtractGoalsAndNeeds(all_text_items)]
    /\ pc' = "personality"
    /\ UNCHANGED <<self, user_data, now, error, all_text_items, idx,
                   demographics, calls, returned, cli>>

\* line 183
PersonalityStep ==
    /\ pc = "personality"
    /\ persona' = [persona EXCEPT !.personality =
                      AnalyzePersonality(all_text_items)]
    /\ pc' = "archetype"
    /\ UNCHANGED <<self, user_data, now, error, all_text_items, idx,
                   demographics, calls, returned, cli>>

\* lines 186-189: the archetype, and the return of the persona
ArchetypeStep ==
    /\ pc = "archetype"
    /\ persona' = [persona EXCEPT !.archetype = DetermineArchetype(persona)]
    /\ pc' = "done"
    /\ returned' = Append(returned, [input |-> user_data, now |-> now,
                                     persona |-> persona'])
    /\ UNCHANGED <<self, user_data, now, error, all_text_items, idx,
                   demographics, calls, cli>>

\* one analyze call on a new instance
Next ==
    \/ AnalyzeBegin
    \/ NormalizeItems
    \/ DemographicsLoop
    \/ DemographicsReturn
    \/ BehaviorsStep
    \/ FrustrationsStep
    \/ MotivationsStep
    \/ GoalsStep
    \/ PersonalityStep
    \/ ArchetypeStep

\* the run of main(): where it is, the steps it has completed, the step
\* that failed ("" if none), the exit status of the process (-1 while it
\* runs), the URL read, the user name taken from it, and the persona file
NoRun ==
    [ at |-> "none", steps |-> <<>>, failed |-> "", exit_status |-> -1,
      url |-> <<>>, username |-> <<>>, file |-> "none" ]

\* the state after PersonaAnalyzer(), with the argument of the first call
InitWith(inputs) ==
    /\ self = NewAnalyzer
    /\ user_data \in inputs
    /\ now = Now0
    /\ pc = "idle"
    /\ error = ""
    /\ persona = <<>>
    /\ all_text_items = <<>>
    /\ idx = 0
    /\ demographics = <<>>
    /\ calls = 1
    /\ returned = <<>>
    /\ cli = NoRun

\* ------------------------------------------------------------------------
\* The corpora of the model
\* ------------------------------------------------------------------------
Restrict(d, keys) == [k \in keys |-> d[k]]

Stamp(kind, t) == [k |-> kind, t |-> t]

Post(title, text, subreddit, stamp) ==
    [ title |-> title, text |-> text, url |-> "u", subreddit |-> subreddit,
      created_utc |-> stamp, score |-> 1 ]

Comment(body, subreddit, stamp) ==
    [ body |-> body, url |-> "u", subreddit |-> subreddit,
      created_utc |-> stamp, score |-> 1 ]

UserInfo(created) ==
    [ name |-> "kojied", created_utc |-> created, comment_karma |-> 3,
      link_karma |-> 4, is_gold |-> FALSE, is_mod |-> TRUE ]

UserData(user_info, posts, comments) ==
    [ isdict |-> TRUE,
      d |-> [user_info |-> user_info, posts |-> posts, comments |-> comments] ]

\* the sequences of at most n elements of S
SeqUpTo(S, n) == UNION { [1..k -> S] : k \in 0..n }

Sentences ==
    { <<"I", "always", "drink", "coffee">>,
      <<"I", "always", "drink", "morning", "coffee">>,
      <<"I", "always", "drink", "the", "coffee", ".">>,
      <<"I", "never", "drink", "morning", "tea">>,
      <<"I", "hate", "traffic", "jams">>,
      <<"I", "hate", "morning", "traffic", "jams", ",", "always">>,
      <<"I", "should", "enjoy", "my", "morning">>,
      <<"I", "enjoy", "easy", "breakfast", ".", "I", "want", "to", "plan",
        "creative", "days">> }

TextPosts ==
    { Post(s, <<>>, "coffee", Stamp("naive", 10)) : s \in Sentences }

TextComments ==
    { Comment(s, "AskScience", Stamp("naive", 40)) : s \in Sentences }

TextCorpora ==
    { UserData(UserInfo(Stamp("naive", 0)), p, c) :
        p \in SeqUpTo(TextPosts, MaxPosts),
        c \in SeqUpTo(TextComments, MaxComments) }

Init == InitWith(TextCorpora)

\* one analyze call on a corpus of habit, frustration and goal sentences
Spec == Init /\ [][Next]_vars

\* corpora whose subreddits and words score for several archetypes
ArchetypeTexts ==
    { <<"I", "feel", "quiet">>,
      <<"My", "plan", "is", "logic">>,
      <<"I", "always", "imagine", "creative", "art">> }

ArchetypeCorpora ==
    { UserData(UserInfo(Stamp("naive", 0)), p, c) :
        p \in SeqUpTo({ Post(s, <<>>, r, Stamp("naive", 10)) :
                           s \in ArchetypeTexts,
                           r \in {"coffee", "AskScience", "Funny"} },
                      MaxPosts),
        c \in SeqUpTo({ Comment(s, "DIY", Stamp("naive", 40)) :
                           s \in ArchetypeTexts },
                      MaxComments) }

InitArchetype == InitWith(ArchetypeCorpora)

SpecArchetype == InitArchetype /\ [][Next]_vars

\* corpora that state ages, places, occupations and relationships
DemographicTexts ==
    { <<"I", "am", "25", "years", "old">>,
      <<"I'm", "91", "yo", ".", "I", "live", "in", "Seattle">>,
      <<"I", "am", "a", "teacher", ".", "I'm", "married">>,
      <<"I", "am", "13", "years", "old", ".", "I", "am", "from", "New",
        "York">>,
      <<"my", "wife", "is", "single">> }

DemographicCorpora ==
    { UserData(UserInfo(Stamp("naive", 0)), p, c) :
        p \in SeqUpTo({ Post(s, <<>>, "AskReddit", Stamp("naive", 10)) :
                           s \in DemographicTexts },
                      MaxPosts),
        c \in SeqUpTo({ Comment(s, "AskReddit", Stamp("naive", 40)) :
                           s \in DemographicTexts },
                      MaxComments) }

InitDemographics == InitWith(DemographicCorpora)

SpecDemographics == InitDemographics /\ [][Next]_vars

\* inputs of every shape: no dict, collections and fields left out, and
\* timestamps of every kind
PostFields == {"title", "text", "url", "subreddit", "created_utc", "score"}

CommentFields == {"body", "url", "subreddit", "created_utc", "score"}

UserFields ==
    {"name", "created_utc", "comment_karma", "link_karma", "is_gold", "is_mod"}

FullPost ==
    Post(<<"I", "always", "drink", "morning", "coffee">>,
         <<"I", "am", "25", "years", "old">>, "DIY", Stamp("naive", 34))

FullComment ==
    Comment(<<"I", "hate", "morning", "traffic", "jams">>, "AskScience",
            Stamp("naive", 58))

FullUser == UserInfo(Stamp("naive", 0))

NotARecord == [isdict |-> FALSE, d |-> <<>>]

FieldCorpora ==
    { UserData(FullUser, <<Restrict(FullPost, keys)>>, <<>>) :
        keys \in SUBSET PostFields }
    \cup { UserData(FullUser, <<FullPost>>, <<Restrict(FullComment, keys)>>) :
             keys \in SUBSET CommentFields }
    \cup { UserData(Restrict(FullUser, keys), posts, <<>>) :
             keys \in SUBSET UserFields, posts \in {<<>>, <<FullPost>>} }

Stamps ==
    { Stamp("empty", 0), Stamp("bad", 0), Stamp("nonstr", 0),
      Stamp("naive", 10), Stamp("naive", 34), Stamp("aware", 10) }

StampCorpora ==
    { UserData(FullUser, p, c) :
        p \in SeqUpTo({ Post(<<"I", "never", "drink", "morning", "tea">>,
                             <<>>, "DIY", st) : st \in Stamps }, MaxPosts),
        c \in SeqUpTo({ Comment(<<"I", "hate", "traffic", "jams">>, "Funny",
                                st) : st \in Stamps }, MaxComments) }
    \cup { UserData(UserInfo(st), <<FullPost>>, <<>>) : st \in Stamps }

TopLevelCorpora ==
    { [isdict |-> TRUE, d |-> Restrict(base.d, keys)] :
        base \in { UserData(FullUser, <<FullPost>>, <<FullComment>>),
                   UserData(FullUser, <<>>, <<>>),
                   UserData(FullUser,
                            <<Restrict(FullPost, {"created_utc"})>>,
                            <<[FullComment EXCEPT
                                  !.created_utc = Stamp("aware", 10)]>>) },
        keys \in SUBSET TopLevel }
    \cup {NotARecord}

ShapeCorpora == FieldCorpora \cup StampCorpora \cup TopLevelCorpora

InitShape == InitWith(ShapeCorpora)

SpecShape == InitShape /\ [][Next]_vars

\* several analyze calls on one instance
CallCorpora ==
    { UserData(FullUser,
               <<Post(<<"I", "am", "25", "years", "old">>, <<>>, "DIY",
                      Stamp("naive", 10))>>, <<>>),
      UserData(FullUser,
               <<Post(<<"I", "live", "in", "Seattle">>, <<>>, "Funny",
                      Stamp("naive", 10))>>,
               <<Comment(<<"I", "always", "drink", "morning", "coffee">>,
                         "Funny", Stamp("naive", 40))>>),
      UserData(FullUser,
               <<Post(<<"I", "hate", "morning", "traffic", "jams", ",",
                        "always">>,
                      <<"I", "enjoy", "easy", "breakfast", ".", "I", "want",
                        "to", "plan", "creative", "days">>, "AskScience",
                      Stamp("naive", 10))>>, <<>>),
      UserData(FullUser,
               <<Post(<<"I", "feel", "quiet">>, <<>>, "DIY",
                      Stamp("naive", 10))>>,
               <<Comment(<<"I", "feel", "quiet">>, "DIY",
                         Stamp("aware", 40))>>) }

\* the next call of analyze on the same instance: the caller passes any
\* corpus, at once or a month later; the locals of the call that ended are
\* gone, and whatever a call reads it has to write first
NextCall ==
    /\ pc \in {"done", "raised"}
    /\ calls < MaxCalls
    /\ \E ud \in CallCorpora, wait \in {0, ClockStep} :
           /\ user_data' = ud
           /\ now' = now + wait
    /\ calls' = calls + 1
    /\ pc' = "idle"
    /\ UNCHANGED <<self, error, persona, all_text_items, idx, demographics,
                   returned, cli>>

NextCalls == Next \/ NextCall

InitCalls == InitWith(CallCorpora)

SpecCalls == InitCalls /\ [][NextCalls]_vars

\* corpora at the ends of the age range, with two ages in one item, with
\* several places and occupations, and with several relationship words
DemographicCases ==
    { <<"I", "am", "12", "years", "old">>,
      <<"I'm", "91", "yo">>,
      <<"I", "am", "13", "years", "old">>,
      <<"I", "am", "90", "years", "old", ".", "I", "am", "a", "teacher">>,
      <<"I", "am", "12", "years", "old", ".", "I", "am", "25", "years",
        "old">>,
      <<"I'm", "25", "years", "old", "and", "I", "live", "in", "Seattle",
        ".">>,
      <<"I", "am", "from", "New", "York", ".", "I", "work", "as", "a",
        "nurse">>,
      <<"my", "husband", "is", "here", ".", "I'm", "single">>,
      <<"I'm", "divorced">> }

LaterCases ==
    { <<"I", "am", "13", "years", "old">>,
      <<"I", "am", "from", "New", "York", ".", "I", "work", "as", "a",
        "nurse">>,
      <<"I'm", "divorced">> }

CaseCorpora ==
    { UserData(UserInfo(Stamp("naive", 0)), p, c) :
        p \in SeqUpTo({ Post(s, <<>>, "AskReddit", Stamp("naive", 10)) :
                           s \in DemographicCases },
                      MaxPosts),
        c \in SeqUpTo({ Comment(s, "AskReddit", Stamp("naive", 40)) :
                           s \in LaterCases },
                      MaxComments) }

InitCases == InitWith(CaseCorpora)

SpecCases == InitCases /\ [][Next]_vars

\* corpora of habit, frustration and goal texts of every sentiment, some of
\* them short, some of them alike
MiningTexts ==
    { <<"my", "problem", "is", "that", "I", "love", "easy", "creative",
        "coffee">>,
      <<"I", "hate", "mondays">>,
      <<"I", "always", "run">>,
      <<"I", "want", "to", "win">>,
      <<"I", "always", "drink", "morning", "coffee">>,
      <<"I", "always", "drink", "coffee">>,
      <<"I", "hate", "morning", "traffic", "jams", ",", "always">> }

MiningCorpora ==
    { UserData(UserInfo(Stamp("naive", 0)), p, c) :
        p \in SeqUpTo({ Post(s, <<>>, "coffee", Stamp("naive", 10)) :
                           s \in MiningTexts },
                      MaxPosts),
        c \in SeqUpTo({ Comment(s, "AskScience", Stamp("naive", 40)) :
                           s \in MiningTexts },
                      MaxComments) }

InitMining == InitWith(MiningCorpora)

SpecMining == InitMining /\ [][Next]_vars

\* corpora of long texts: each text holds three short sentences, which
\* only the templates take, and three long ones, which hold a habit, a
\* frustration and a goal keyword each
LongTexts ==
    { <<"I", "never", "nap", ".", "I", "hate", "rain", ".", "I", "want",
        "to", "ski", ".", "I", "always", "hate", "to", "plan", "trips",
        ".", "I", "always", "hate", "to", "plan", "meals", ".", "I",
        "always", "hate", "to", "plan", "taxes">>,
      <<"I", "never", "jog", ".", "I", "hate", "snow", ".", "I", "want",
        "to", "sail", ".", "I", "always", "hate", "to", "plan", "lunch",
        ".", "I", "always", "hate", "to", "plan", "chores", ".", "I",
        "always", "hate", "to", "plan", "walks">>,
      <<"I", "never", "knit", ".", "I", "hate", "hail", ".", "I", "want",
        "to", "row", ".", "I", "always", "hate", "to", "plan", "calls",
        ".", "I", "always", "hate", "to", "plan", "games", ".", "I",
        "always", "hate", "to", "plan", "tests">> }

LongCorpora ==
    { UserData(UserInfo(Stamp("naive", 0)), p, c) :
        p \in SeqUpTo({ Post(s, <<>>, "coffee", Stamp("naive", 10)) :
                           s \in LongTexts },
                      MaxPosts),
        c \in SeqUpTo({ Comment(s, "AskScience", Stamp("naive", 40)) :
                           s \in LongTexts },
                      MaxComments) }

InitLong == InitWith(LongCorpora)

SpecLong == InitLong /\ [][Next]_vars

\* corpora of up to four items that hold motivation keywords, in pleasant
\* sentences and in one that is not, and keywords of the
\* introvert/extrovert axis
MaxTraitPosts == 3

TraitTexts ==
    { <<"I", "enjoy", "easy", "simple", "quick", "efficient", "convenient",
        "straightforward", "group", "days">>,
      <<"I", "like", "social", "party">>,
      <<"I", "prefer", "healthy", "days", ".", "fast", "energetic",
        "rain">>,
      <<"I", "enjoy", "quiet", "days">> }

TraitCorpora ==
    { UserData(UserInfo(Stamp("naive", 0)), p, c) :
        p \in SeqUpTo({ Post(s, <<>>, "coffee", Stamp("naive", 10)) :
                           s \in TraitTexts },
                      MaxTraitPosts),
        c \in SeqUpTo({ Comment(s, "AskScience", Stamp("naive", 40)) :
                           s \in TraitTexts },
                      MaxComments) }

InitTraits == InitWith(TraitCorpora)

SpecTraits == InitTraits /\ [][Next]_vars

\* corpora of many items without text: n posts, the newest first, that go
\* round the first w subreddits, every gap-th of them with a timestamp
\* that does not parse, and at most one comment
SubredditName(k) == "r" \o ToString(k)

ManyPosts(n, w, gap) ==
    [k \in 1..n |->
        Post(<<>>, <<>>, SubredditName(((k - 1) % w) + 1),
             IF gap > 0 /\ k % gap = 0 THEN Stamp("bad", 0)
             ELSE Stamp("naive", ModerateBelow + LowBelow - k))]

CorpusSizes ==
    {0, 1, LowBelow - 1, LowBelow, ModerateBelow - 1, ModerateBelow}

CorpusWidths == {1, 3, TopSubreddits + 1, TopSubreddits + 2}

CorpusGaps == {0, 1, 5}

LoneComments ==
    { <<>>,
      <<Comment(<<>>, SubredditName(TopSubreddits + 1), Stamp("naive", 40))>>,
      <<Comment(<<>>, SubredditName(TopSubreddits + 2), Stamp("bad", 0))>> }

ActivityCorpora ==
    { UserData(UserInfo(Stamp("naive", 0)), ManyPosts(n, w, gap), c) :
        n \in CorpusSizes, w \in CorpusWidths, gap \in CorpusGaps,
        c \in LoneComments }

InitActivity == InitWith(ActivityCorpora)

SpecActivity == InitActivity /\ [][Next]_vars

\* corpora of sentences that hold stopwords only, and of a sentence that
\* holds a habit, a frustration and a goal keyword
SharedTexts ==
    { <<"I", "should", "be", "with", "you", "now">>,
      <<"You", "should", "not", "do", "this", "to", "me">>,
      <<"I", "should", "be", "with", "you", "now", ".", "I", "should", "be",
        "with", "you", "now">>,
      <<"I", "want", "to", "be", "with", "you", "now">>,
      <<"I", "always", "hate", "to", "plan", "trips">> }

SharedCorpora ==
    { UserData(UserInfo(Stamp("naive", 0)), p, c) :
        p \in SeqUpTo({ Post(s, <<>>, "coffee", Stamp("naive", 10)) :
                           s \in SharedTexts },
                      MaxPosts),
        c \in SeqUpTo({ Comment(s, "AskScience", Stamp("naive", 40)) :
                           s \in SharedTexts },
                      MaxComments) }

InitShared == InitWith(SharedCorpora)

SpecShared == InitShared /\ [][Next]_vars

\* ------------------------------------------------------------------------
\* src/main.py: the command-line pipeline.  A URL is the sequence of its
\* parts; what the environment, the command line, the terminal, Reddit and
\* the disk do is drawn at the step that meets them.
\* ------------------------------------------------------------------------
\* the parts of the model that match [\w-]+
WordParts == {"kojied", "ko-jied", "coffee", "comments", "user", "u", "r"}

\* where the host starts: after the scheme and an optional www.
HostAt(url) == IF Len(url) >= 3 /\ url[3] = "www." THEN 4 ELSE 3

\* validate_reddit_url:
\* ^https?://(?:www\.)?reddit\.com/(?:user|u)/([\w-]+)/?.*$
validate_reddit_url(url) ==
    /\ Len(url) >= HostAt(url) + 4
    /\ url[1] \in {"http", "https"}
    /\ url[2] = "://"
    /\ url[HostAt(url)] = "reddit.com"
    /\ url[HostAt(url) + 1] = "/"
    /\ url[HostAt(url) + 2] \in {"user", "u"}
    /\ url[HostAt(url) + 3] = "/"
    /\ url[HostAt(url) + 4] \in WordParts

\* extract_username_from_url: group 1 of the same pattern, or None
extract_username_from_url(url) ==
    IF validate_reddit_url(url) THEN <<url[HostAt(url) + 4]>> ELSE None

\* what the user may type at the prompt
TypedUrls ==
    { <<"https", "://", "www.", "reddit.com", "/", "user", "/", "kojied", "/">>,
      <<"http", "://", "reddit.com", "/", "u", "/", "ko-jied">>,
      <<"", "https", "://", "www.", "reddit.com", "/", "user", "/", "kojied",
        "/", "comments", "">>,
      <<"https", "://", "old.", "reddit.com", "/", "user", "/", "kojied">>,
      <<"https", "://", "www.", "reddit.com", "/", "r", "/", "coffee">>,
      <<"https", "://", "www.", "reddit.com", "/", "user", "/">>,
      <<"kojied">>,
      <<>> }

\* the three variables of the environment: absent (""), as in .env.example,
\* or set
Environments ==
    [ REDDIT_CLIENT_ID : {"", "your_client_id_here", "id"},
      REDDIT_CLIENT_SECRET : {"", "your_client_secret_here", "secret"},
      REDDIT_USER_AGENT : {"", "agent"} ]

\* what scraper.get_user_data may return: {} for a user that is not
\* found, else the three collections, with timestamps as isoformat()
\* writes them
FetchedData ==
    { [isdict |-> TRUE, d |-> <<>>] }
    \cup
    { UserData(UserInfo(Stamp("naive", 0)), p, c) :
        p \in SeqUpTo({ Post(<<"I", "always", "drink", "coffee">>, <<>>,
                             "coffee", Stamp("naive", 10)) }, MaxPosts),
        c \in SeqUpTo({ Comment(<<"I", "hate", "traffic", "jams">>,
                                "AskScience", Stamp("naive", 40)) },
                      MaxComments) }

\* sys.exit(status) at a step that failed, or the exception that the
\* handler of lines 152-154 turns into sys.exit(1)
ExitAt(run, step, status) ==
    [run EXCEPT !.at = "exited", !.failed = step, !.exit_status = status]

\* the step is done and main goes on at the next one
Done(run, step, next) ==
    [run EXCEPT !.at = next, !.steps = Append(@, step)]

\* lines 95-109: load_dotenv and the check of the environment
CheckEnvironment ==
    /\ cli.at = "environment"
    /\ \E env \in Environments :
           LET missing_vars == {v \in DOMAIN env : env[v] = ""}
           IN  IF missing_vars # {}
               THEN cli' = ExitAt(cli, "environment", 1)
               ELSE IF /\ env.REDDIT_CLIENT_ID = "your_client_id_here"
                       /\ env.REDDIT_CLIENT_SECRET = "your_client_secret_here"
               THEN cli' = ExitAt(cli, "environment", 1)
               ELSE cli' = Done(cli, "environment", "arguments")
    /\ UNCHANGED <<self, user_data, now, pc, error, persona, all_text_items,
                   idx, demographics, calls, returned>>

\* lines 111-114: parse_arguments.  argparse ends the process itself, with
\* status 2 on a command line it rejects and with status 0 after -h;
\* SystemExit is no Exception, so the handler of line 152 lets it pass
ParseArguments ==
    /\ cli.at = "arguments"
    /\ \E outcome \in {"parsed", "rejected", "help"} :
           cli' = IF outcome = "parsed" THEN Done(cli, "arguments", "url")
                  ELSE IF outcome = "rejected" THEN ExitAt(cli, "arguments", 2)
                  ELSE [cli EXCEPT !.at = "exited", !.exit_status = 0]
    /\ UNCHANGED <<self, user_data, now, pc, error, persona, all_text_items,
                   idx, demographics, calls, returned>>

\* lines 116-125: the URL is read, validated, and the user name taken;
\* input() raises EOFError when the input has ended
ReadUrl ==
    /\ cli.at = "url"
    /\ \/ cli' = ExitAt(cli, "url", 1)
       \/ \E typed \in TypedUrls :
              LET user_input_url == Strip(typed)
                  username == extract_username_from_url(user_input_url)
              IN  IF ~validate_reddit_url(user_input_url)
                  THEN cli' = ExitAt([cli EXCEPT !.url = user_input_url],
                                     "url", 1)
                  ELSE IF username = None
                  THEN cli' = ExitAt([cli EXCEPT !.url = user_input_url],
                                     "url", 1)
                  ELSE cli' = Done([cli EXCEPT !.url = user_input_url,
                                               !.username = username],
                                   "url", "fetch")
    /\ UNCHANGED <<self, user_data, now, pc, error, persona, all_text_items,
                   idx, demographics, calls, returned>>

\* a fetch step that hands on whatever was fetched
GetUserDataUnchecked ==
    /\ cli.at = "fetch"
    /\ \/ /\ cli' = ExitAt(cli, "fetch", 1)
          /\ UNCHANGED user_data
       \/ \E fetched \in FetchedData :
              /\ user_data' = fetched
              /\ cli' = Done(cli, "fetch", "analysis")
    /\ UNCHANGED <<self, now, pc, error, persona, all_text_items, idx,
                   demographics, calls, returned>>

\* lines 127-138: the scraper is built and the data fetched; an exception
\* of the scraper that is no PrawcoreException reaches main
GetUserData ==
    /\ cli.at = "fetch"
    /\ \/ /\ cli' = ExitAt(cli, "fetch", 1)
          /\ UNCHANGED user_data
       \/ \E fetched \in FetchedData :
              /\ user_data' = fetched
              /\ IF \/ fetched.d = <<>>
                    \/ /\ PostsOf(fetched) = <<>>
                       /\ CommentsOf(fetched) = <<>>
                 THEN cli' = ExitAt(cli, "fetch", 1)
                 ELSE cli' = Done(cli, "fetch", "analysis")
    /\ UNCHANGED <<self, now, pc, error, persona, all_text_items, idx,
                   demographics, calls, returned>>

\* lines 141-142: PersonaAnalyzer() and the call of analyze
CallAnalyze ==
    /\ cli.at = "analysis"
    /\ pc = "main"
    /\ pc' = "idle"
    /\ UNCHANGED <<self, user_data, now, error, persona, all_text_items, idx,
                   demographics, calls, returned, cli>>

\* lines 152-154: PersonaAnalyzer() raised (the NLTK data cannot be
\* loaded) or analyze did
AnalysisRaised ==
    /\ cli.at = "analysis"
    /\ pc \in {"main", "raised"}
    /\ cli' = ExitAt(cli, "analysis", 1)
    /\ UNCHANGED <<self, user_data, now, pc, error, persona, all_text_items,
                   idx, demographics, calls, returned>>

\* line 142: analyze returned persona_data
AnalysisReturned ==
    /\ cli.at = "analysis"
    /\ pc = "done"
    /\ cli' = Done(cli, "analysis", "generation")
    /\ UNCHANGED <<self, user_data, now, pc, error, persona, all_text_items,
                   idx, demographics, calls, returned>>

\* lines 145-146: PersonaGenerator() and generate_persona, which may raise
GeneratePersona ==
    /\ cli.at = "generation"
    /\ \/ cli' = Done(cli, "generation", "save")
       \/ cli' = ExitAt(cli, "generation", 1)
    /\ UNCHANGED <<self, user_data, now, pc, error, persona, all_text_items,
                   idx, demographics, calls, returned>>

\* lines 148-151 and save_persona: os.makedirs or open may raise, and
\* then there is no file; write may raise after open has made the file;
\* else the file is written and main returns
SavePersona ==
    /\ cli.at = "save"
    /\ \E disk \in {"written", "no_directory", "no_open", "no_write"} :
           cli' = IF disk = "written"
                  THEN [Done(cli, "save", "exited") EXCEPT
                            !.file = "saved", !.exit_status = 0]
                  ELSE IF disk = "no_write"
                  THEN [ExitAt(cli, "save", 1) EXCEPT !.file = "partial"]
                  ELSE ExitAt(cli, "save", 1)
    /\ UNCHANGED <<self, user_data, now, pc, error, persona, all_text_items,
                   idx, demographics, calls, returned>>

\* one run of main()
NextMain ==
    \/ CheckEnvironment
    \/ ParseArguments
    \/ ReadUrl
    \/ GetUserData
    \/ CallAnalyze
    \/ AnalysisRaised
    \/ AnalyzeBegin
    \/ NormalizeItems
    \/ DemographicsLoop
    \/ DemographicsReturn
    \/ BehaviorsStep
    \/ FrustrationsStep
    \/ MotivationsStep
    \/ GoalsStep
    \/ PersonalityStep
    \/ ArchetypeStep
    \/ AnalysisReturned
    \/ GeneratePersona
    \/ SavePersona

\* the process before main() runs: nothing is fetched yet
InitMain ==
    /\ self = NewAnalyzer
    /\ user_data = [isdict |-> FALSE, d |-> <<>>]
    /\ now = Now0
    /\ pc = "main"
    /\ error = ""
    /\ persona = <<>>
    /\ all_text_items = <<>>
    /\ idx = 0
    /\ demographics = <<>>
    /\ calls = 1
    /\ returned = <<>>
    /\ cli = [NoRun EXCEPT !.at = "environment"]

SpecMain == InitMain /\ [][NextMain]_vars

\* ------------------------------------------------------------------------
\* Properties of the fact collections
\* ------------------------------------------------------------------------
\* the lowercased, stopword-filtered word set of a fact
FactWords(fact) == WordSet(fact.description) \ StopWords

\* |A /\ B| / |A \/ B| <= 0.7
AtMostSeventy(A, B) ==
    10 * Cardinality(A \cap B) <= 7 * Cardinality(A \cup B)

Dissimilar(facts) ==
    \A i, j \in DOMAIN facts :
        i < j => AtMostSeventy(FactWords(facts[i]), FactWords(facts[j]))

\* C1: in each of the three fact collections of a returned persona, every
\* pair of distinct facts has a Jaccard similarity of the lowercased,
\* stopword-filtered word sets of at most 0.7.
C1_DedupInvariant ==
    pc = "done" =>
        /\ Dissimilar(persona.behavior_and_habits)
        /\ Dissimilar(persona.frustrations)
        /\ Dissimilar(persona.goals_and_needs)

\* a habit sentence of the corpus that is more than 0.7 similar to an
\* accepted habit and is itself no fact
RejectedHabit ==
    \E k \in DOMAIN all_text_items :
        \E sentence \in Range(SplitSentences(Lower(all_text_items[k].text))) :
            /\ \E kw \in Range(habit_keywords) : KeywordIn(kw, sentence)
            /\ StrLen(sentence) > MinHabitSentence
            /\ \E f \in Range(persona.behavior_and_habits) :
                   ~AtMostSeventy(WordSet(sentence) \ StopWords, FactWords(f))
            /\ \A f \in Range(persona.behavior_and_habits) :
                   WordSet(sentence) \ StopWords # FactWords(f)

\* a returned persona with two habits, from a corpus with a third habit
\* sentence that the dedup test turned down
C1_Witness ==
    /\ pc = "done"
    /\ Len(persona.behavior_and_habits) >= 2
    /\ RejectedHabit

\* ------------------------------------------------------------------------
\* Properties of the archetype
\* ------------------------------------------------------------------------
TableOrder ==
    <<"The Creator", "The Caregiver", "The Explorer", "The Sage",
      "The Rebel", "The Hero", "The Jester", "The Everyman", "The Ruler",
      "The Magician", "The Lover", "The Innocent">>

\* the archetypes whose total score is the greatest, by place in the table
TopPlaces(scores) ==
    {k \in DOMAIN scores : \A j \in DOMAIN scores : scores[j][2] <= scores[k][2]}

\* C2: the archetype of a returned persona has the greatest total score of
\* the 12 archetypes, and of the archetypes that share the greatest score it
\* is the one that comes first in the table order.
C2_FirstMaximum ==
    pc = "done" =>
        LET scores == ArchetypeScores(persona)
        IN  /\ [k \in DOMAIN scores |-> scores[k][1]] = TableOrder
            /\ \E k \in TopPlaces(scores) :
                   /\ TableOrder[k] = persona.archetype
                   /\ \A j \in TopPlaces(scores) : k <= j

\* a returned persona in which several archetypes share a greatest score
\* above 0 and the first of them is not the first of the table
C2_Witness ==
    /\ pc = "done"
    /\ LET scores == ArchetypeScores(persona)
       IN  /\ Cardinality(TopPlaces(scores)) >= 2
           /\ 1 \notin TopPlaces(scores)
           /\ \E k \in TopPlaces(scores) : scores[k][2] > 0

\* ------------------------------------------------------------------------
\* Properties of the inputs of analyze
\* ------------------------------------------------------------------------
DemographicFields == {"age", "location", "occupation", "status"}

\* posts = [] and comments = []
EmptyCorpus ==
    /\ user_data.isdict
    /\ {"posts", "comments"} \subseteq DOMAIN user_data.d
    /\ user_data.d["posts"] = <<>>
    /\ user_data.d["comments"] = <<>>

\* C3: analyze on an empty corpus returns a persona with empty
\* active_subreddits, most_active_days and most_active_hours, with the value
\* null in the four demographic fields, with three empty fact collections
\* and with the archetype The Creator, all 12 scores being 0.
C3_EmptyCorpus ==
    EmptyCorpus =>
        /\ pc # "raised"
        /\ pc = "done" =>
              /\ persona.activity.active_subreddits = <<>>
              /\ persona.activity.posting_frequency.most_active_days = <<>>
              /\ persona.activity.posting_frequency.most_active_hours = <<>>
              /\ \A f \in DemographicFields :
                     persona.basic_info.detected_demographics[f].value = None
              /\ persona.behavior_and_habits = <<>>
              /\ persona.frustrations = <<>>
              /\ persona.goals_and_needs = <<>>
              /\ \A k \in DOMAIN archetypes :
                     ArchetypeScores(persona)[k][2] = 0
              /\ persona.archetype = "The Creator"

\* the persona of an empty corpus has been returned
C3_Witness == EmptyCorpus /\ pc = "done" /\ Len(returned) = 1

\* not a record, or one of the three collections is missing
InvalidInput ==
    \/ ~user_data.isdict
    \/ ~(TopLevel \subseteq DOMAIN user_data.d)

\* C4 as the specification states it: analyze fails (whatever the error is
\* called) before any extraction step when the input is no record or lacks
\* one of user_info, posts and comments, and it fails on no other input.
C4_FailsFastOnInvalidInput ==
    /\ (InvalidInput /\ pc # "idle") =>
           /\ pc = "raised"
           /\ error # ""
           /\ all_text_items = <<>>
    /\ pc = "raised" => InvalidInput

\* the input with every missing collection put in, empty
Completed(ud) ==
    [isdict |-> TRUE,
     d |-> [k \in TopLevel |-> IF k \in DOMAIN ud.d THEN ud.d[k] ELSE <<>>]]

\* C4 as the code has it: analyze validates nothing and knows no
\* InvalidInput.  An input that is no record fails with AttributeError
\* before the persona is built and before any extraction step; a record
\* that lacks collections is not turned down: it fails only where the same
\* input with the missing collections present and empty fails, and else
\* analyze returns the persona of that input.
C4_MissingCollectionsReadAsEmpty ==
    /\ (~user_data.isdict /\ pc # "idle") =>
           /\ pc = "raised"
           /\ error = "AttributeError"
           /\ all_text_items = <<>>
           /\ DOMAIN persona = {}
    /\ (user_data.isdict /\ pc = "raised") =>
           /\ error = "TypeError"
           /\ Analyze(Completed(user_data), now).raises = "TypeError"
    /\ (user_data.isdict /\ pc = "done") =>
           /\ Analyze(Completed(user_data), now).raises = ""
           /\ Analyze(Completed(user_data), now).persona = persona

\* a persona is returned for a record that holds posts alone
C4_Witness ==
    /\ pc = "done"
    /\ DOMAIN user_data.d = {"posts"}
    /\ Len(all_text_items) > 0
    /\ persona.basic_info.username = ""
    /\ persona.activity.total_comments = 0

\* ------------------------------------------------------------------------
\* Properties of malformed and absent fields
\* ------------------------------------------------------------------------
InputItems == PostsOf(user_data) \o CommentsOf(user_data)

\* a created_utc value that datetime.fromisoformat cannot parse
Unparsable(x) ==
    /\ "created_utc" \in DOMAIN x
    /\ x["created_utc"].k \in {"bad", "nonstr"}

CountsOf(entries) == SumSeq([k \in DOMAIN entries |-> entries[k].count])

HasSubreddit(x) == "subreddit" \in DOMAIN x /\ x["subreddit"] # ""

HasTime(x) ==
    "created_utc" \in DOMAIN x /\ x["created_utc"].k \in {"naive", "aware"}

HowMany(Test(_), s) == Cardinality({k \in DOMAIN s : Test(s[k])})

\* what is counted of the input in a returned persona
CountedAsGiven ==
    /\ persona.activity.total_posts = Len(PostsOf(user_data))
    /\ persona.activity.total_comments = Len(CommentsOf(user_data))
    /\ Len(all_text_items) = Len(InputItems)
    /\ CountsOf(persona.activity.active_subreddits)
           = HowMany(HasSubreddit, InputItems)
    /\ CountsOf(persona.activity.posting_frequency.most_active_days)
           = HowMany(HasTime, InputItems)
    /\ CountsOf(persona.activity.posting_frequency.most_active_hours)
           = HowMany(HasTime, InputItems)

\* C5: whatever the corpus, a post or comment whose timestamp cannot be
\* parsed is left out of the weekday and hour histograms only: analyze
\* still returns a persona, and the item is counted in the totals and in
\* active_subreddits and is among the text items.
C5_UnparsableTimestampTolerated ==
    (user_data.isdict /\ \E k \in DOMAIN InputItems : Unparsable(InputItems[k]))
        => /\ pc # "raised"
           /\ pc = "done" => CountedAsGiven

\* the defaults that stand in for absent fields in a returned persona
DefaultsSubstituted ==
    LET info == UserInfoOf(user_data)
    IN  /\ persona.basic_info.username
               = (IF "name" \in DOMAIN info THEN info["name"] ELSE "")
        /\ persona.basic_info.karma
               = (IF "comment_karma" \in DOMAIN info
                  THEN info["comment_karma"] ELSE 0)
                 + (IF "link_karma" \in DOMAIN info
                    THEN info["link_karma"] ELSE 0)
        /\ "created_utc" \notin DOMAIN info
               => persona.basic_info.account_age = <<"Unknown">>
        /\ \A k \in DOMAIN InputItems :
               /\ "url" \notin DOMAIN InputItems[k]
                      => all_text_items[k].url = ""
               /\ "score" \notin DOMAIN InputItems[k]
                      => all_text_items[k].score = 0
               /\ "subreddit" \notin DOMAIN InputItems[k]
                      => all_text_items[k].subreddit = ""
               /\ "created_utc" \notin DOMAIN InputItems[k]
                      => all_text_items[k].created_utc = EmptyStamp
        /\ CountsOf(persona.activity.active_subreddits)
               = HowMany(HasSubreddit, InputItems)

\* C6: for every input that holds user_info, posts and comments, analyze
\* returns a persona and does not raise, whichever fields of the records
\* are absent; a default stands in for an absent field and an item without
\* subreddit is not counted in active_subreddits.
C6_AbsentFieldsNeverRaise ==
    (user_data.isdict /\ TopLevel \subseteq DOMAIN user_data.d)
        => /\ pc # "raised"
           /\ pc = "done" => DefaultsSubstituted

\* ------------------------------------------------------------------------
\* Properties of repeated calls
\* ------------------------------------------------------------------------
\* C7: two analyze calls on equal input with the same current time return
\* equal personas, every field of the persona being a function of the input
\* and of the current time only.
C7_EqualCallsEqualPersonas ==
    \A i, j \in DOMAIN returned :
        (returned[i].input = returned[j].input
            /\ returned[i].now = returned[j].now)
        => returned[i].persona = returned[j].persona

\* a corpus was analyzed, then another one that states a place, then the
\* first one again at the same time
C7_Witness ==
    /\ Len(returned) = 3
    /\ returned[1].input = returned[3].input
    /\ returned[1].now = returned[3].now
    /\ returned[2].input # returned[1].input
    /\ returned[2].persona.basic_info.detected_demographics["location"].value
           # None
    /\ returned[1].persona.basic_info.detected_demographics["location"].value
           = None

\* C8: analyze leaves the configuration of the analyzer (keyword lists,
\* personality dimension table, stopword set) as __init__ made it, and the
\* persona an instance returns for a corpus is the persona of that corpus
\* alone, whichever corpora the instance analyzed before.
C8_CallsAreIndependent ==
    /\ self = NewAnalyzer
    /\ pc = "done" =>
           /\ Analyze(user_data, now).raises = ""
           /\ returned[Len(returned)].persona
                  = Analyze(user_data, now).persona

\* the third call of an instance returned, after two calls on other
\* corpora that found demographics and facts of their own
C8_Witness ==
    /\ pc = "done"
    /\ Len(returned) = 3
    /\ returned[1].input # returned[3].input
    /\ returned[2].input # returned[3].input
    /\ returned[1].input # returned[2].input
    /\ \E f \in DemographicFields :
           /\ returned[1].persona.basic_info.detected_demographics[f].value
                  # None
           /\ persona.basic_info.detected_demographics[f].value = None
    /\ returned[2].persona.behavior_and_habits # <<>>
    /\ persona.behavior_and_habits = <<>>

\* ------------------------------------------------------------------------
\* Properties of the demographics and of the scores
\* ------------------------------------------------------------------------
\* C9: while _extract_demographics goes through the text items, the
\* confidence of none of the four demographic fields gets smaller from one
\* item to the next.
C9_ConfidenceNeverDecreases ==
    [][(pc = "demographics" /\ pc' = "demographics") =>
           \A f \in DemographicFields :
               demographics'[f].confidence >= demographics[f].confidence]_vars

\* two items were processed, each stating an age and a place: the fields
\* hold what the first item said, at the confidence it was given
C9_Witness ==
    /\ pc = "demographics"
    /\ idx = 3
    /\ AgeSearch(all_text_items[1].text).found
    /\ AgeSearch(all_text_items[2].text).found
    /\ LocationSearch(all_text_items[1].text).found
    /\ LocationSearch(all_text_items[2].text).found
    /\ all_text_items[1] # all_text_items[2]
    /\ demographics["age"].confidence = AgeConfidence
    /\ demographics["location"].confidence = LocationConfidence
    /\ demographics["location"].citation = <<all_text_items[1]>>

\* C10: in a returned persona each of the six motivation scores is an
\* integer from 0 to 10, each of the four personality scores is an integer
\* from 0 to 100, and the archetype is one of the 12 names of the table.
C10_ScoresInRange ==
    pc = "done" =>
        /\ DOMAIN persona.motivations
               = {"convenience", "wellness", "speed", "preferences",
                  "comfort", "dietary_needs"}
        /\ \A c \in DOMAIN persona.motivations :
               persona.motivations[c].score \in 0..10
        /\ DOMAIN persona.personality
               = {"introvert_extrovert", "intuition_sensing",
                  "feeling_thinking", "perceiving_judging"}
        /\ \A d \in DOMAIN persona.personality :
               persona.personality[d].score \in 0..100
        /\ persona.archetype \in Range(TableOrder)

\* a returned persona with a motivation at 10, another one between 0 and
\* 10, and a personality score at each end of the scale
C10_Witness ==
    /\ pc = "done"
    /\ \E c \in DOMAIN persona.motivations :
           persona.motivations[c].score = 10
    /\ \E c \in DOMAIN persona.motivations :
           persona.motivations[c].score \in 1..9
    /\ \E d \in DOMAIN persona.personality :
           persona.personality[d].score = 0
    /\ \E d \in DOMAIN persona.personality :
           persona.personality[d].score = 100

\* ------------------------------------------------------------------------
\* Properties of the single demographic fields
\* ------------------------------------------------------------------------
\* a field that nothing was written to
UnsetField == [value |-> None, confidence |-> 0, citation |-> None]

\* C11: a turn of the loop of _extract_demographics that reads an item with
\* a matched age n while the age field is unset sets the field (value n,
\* confidence 0.9) exactly when 13 <= n <= 90; an n of 12 or 91, or any
\* other n outside the range, leaves the field unset with confidence 0; an
\* item without an age match leaves the field as it is.
C11_AgeRange ==
    [][(pc = "demographics" /\ pc' = "demographics") =>
           LET item == all_text_items[idx]
               m == AgeSearch(item.text)
           IN  /\ (m.found /\ demographics["age"] = UnsetField) =>
                      IF m.age \in 13..90
                      THEN demographics'["age"]
                               = [value |-> <<m.age>>, confidence |-> 90,
                                  citation |-> <<item>>]
                      ELSE demographics'["age"] = UnsetField
               /\ ~m.found => demographics'["age"] = demographics["age"]]_vars

\* three items were read: the first states the age 12, the second the age
\* 91, the third the age 90 (or 13), and only the third set the field
C11_Witness ==
    /\ pc = "demographics"
    /\ idx = 4
    /\ AgeSearch(all_text_items[1].text).age = 12
    /\ AgeSearch(all_text_items[2].text).age = 91
    /\ AgeSearch(all_text_items[3].text).age \in {13, 90}
    /\ demographics["age"].value
           = <<AgeSearch(all_text_items[3].text).age>>
    /\ demographics["age"].confidence = AgeConfidence
    /\ demographics["age"].citation = <<all_text_items[3]>>

\* ------------------------------------------------------------------------
\* Properties of the two strategies of the miners
\* ------------------------------------------------------------------------
\* the fact is a match of one of the templates in the item it cites
TemplateFact(fact, patterns, lead) ==
    \E k \in DOMAIN patterns :
        \E m \in Range(FindIter(patterns[k], Lower(fact.citation.text), 1)) :
            fact.description = Capitalize(Strip(lead \o m))

\* the sentences of the item that are longer than 20 characters and hold a
\* habit keyword
HabitSentences(item) ==
    { s \in Range(SplitSentences(Lower(item.text))) :
        /\ StrLen(s) > 20
        /\ \E k \in DOMAIN habit_keywords : KeywordIn(habit_keywords[k], s) }

\* a frustration fact that is no template match cites an item whose
\* negative score is above 0.2
FrustrationsGated ==
    \A k \in DOMAIN persona.frustrations :
        LET fact == persona.frustrations[k]
        IN  ~TemplateFact(fact, frustration_patterns, <<>>)
                => NegAbove(Lower(fact.citation.text))

Cited(facts, item) == \E k \in DOMAIN facts : facts[k].citation = item

\* C12 (as worded): a frustration fact found by keyword cites an item whose
\* negative score is above 0.2, and every item that holds a habit keyword in
\* a sentence longer than 20 characters is cited by a behavior fact.
C12_SentimentGate ==
    pc = "done" =>
        /\ FrustrationsGated
        /\ \A k \in DOMAIN all_text_items :
               HabitSentences(all_text_items[k]) # {}
                   => Cited(persona.behavior_and_habits, all_text_items[k])

\* C12 (amended): a frustration fact found by keyword cites an item whose
\* negative score is above 0.2; an item that holds a habit keyword in a
\* sentence longer than 20 characters is cited by a behavior fact whatever
\* its sentiment, unless each such sentence is more than 0.7 similar to a
\* returned behavior fact or the collection already holds 10 facts.
C12_GateOnFrustrationsOnly ==
    pc = "done" =>
        /\ FrustrationsGated
        /\ \A k \in DOMAIN all_text_items :
               HabitSentences(all_text_items[k]) # {}
                   => \/ Cited(persona.behavior_and_habits, all_text_items[k])
                      \/ Len(persona.behavior_and_habits) = 10
                      \/ \A s \in HabitSentences(all_text_items[k]) :
                             \E j \in DOMAIN persona.behavior_and_habits :
                                 TooSimilar(s,
                                     persona.behavior_and_habits[j].description)

\* a returned persona of three items: the first holds a frustration keyword
\* in a long sentence and is not negative, so no frustration cites it; the
\* second is negative, the third is not, both hold a habit sentence and
\* both are cited by a behavior fact; the second is cited by a frustration
C12_Witness ==
    /\ pc = "done"
    /\ Len(all_text_items) = 3
    /\ KeywordIn(<<"problem">>, Lower(all_text_items[1].text))
    /\ StrLen(all_text_items[1].text) > 15
    /\ ~NegAbove(Lower(all_text_items[1].text))
    /\ ~Cited(persona.frustrations, all_text_items[1])
    /\ NegAbove(Lower(all_text_items[2].text))
    /\ ~NegAbove(Lower(all_text_items[3].text))
    /\ HabitSentences(all_text_items[2]) # {}
    /\ HabitSentences(all_text_items[3]) # {}
    /\ Cited(persona.behavior_and_habits, all_text_items[2])
    /\ Cited(persona.behavior_and_habits, all_text_items[3])
    /\ Cited(persona.frustrations, all_text_items[2])

\* ------------------------------------------------------------------------
\* Properties of the archetype scores
\* ------------------------------------------------------------------------
\* the affinity subreddits of the archetype that are among the active
\* subreddits of the persona, compared in lower case
AffinityHits(arch, p) ==
    {j \in DOMAIN arch[3] :
        \E i \in DOMAIN p.activity.active_subreddits :
            LowerTok(p.activity.active_subreddits[i].name)
                = LowerTok(arch[3][j])}

\* the places where a trait word of the archetype stands in a description
\* of a returned fact: <<collection, fact, position, trait>>
TraitHits(arch, p) ==
    LET facts == [b |-> p.behavior_and_habits, f |-> p.frustrations,
                  g |-> p.goals_and_needs]
    IN  UNION { UNION { { <<c, k, h[1], h[2]>> :
                            h \in { g \in (DOMAIN facts[c][k].description)
                                             \X (DOMAIN arch[2]) :
                                        LowerTok(facts[c][k].description[g[1]])
                                            = arch[2][g[2]][1] } } :
                        k \in DOMAIN facts[c] } :
                c \in {"b", "f", "g"} }

\* the bonuses of the archetype: a weight counts when the score of its
\* axis is below 40 (low side) or above 60 (high side)
BonusOf(name, p) ==
    SumSeq([k \in DOMAIN PersonalityBonuses |->
        LET b == PersonalityBonuses[k]
            score == p.personality[b[1]].score
        IN  IF /\ b[3] = name
               /\ \/ b[2] = "low" /\ score < 40
                  \/ b[2] = "high" /\ score > 60
            THEN b[4] ELSE 0])

\* C13: the total score of every archetype is 2 for each of its affinity
\* subreddits found (in lower case) among the active subreddits, plus 1
\* for each whole-word occurrence of one of its trait words in the
\* descriptions of the returned behaviors, frustrations and goals, plus
\* its personality bonuses of weight 1 or 2, which count only for an axis
\* score below 40 or above 60; a user active in AskScience gives The Sage
\* at least 2; the archetype returned has the greatest total.
C13_ArchetypeScore ==
    pc = "done" =>
        LET scores == ArchetypeScores(persona)
        IN  /\ \A k \in DOMAIN archetypes :
                   /\ scores[k][1] = archetypes[k][1]
                   /\ scores[k][2]
                          = 2 * Cardinality(AffinityHits(archetypes[k], persona))
                            + Cardinality(TraitHits(archetypes[k], persona))
                            + BonusOf(archetypes[k][1], persona)
                   /\ (\A d \in DOMAIN persona.personality :
                           persona.personality[d].score \in 40..60)
                          => BonusOf(archetypes[k][1], persona) = 0
                   /\ (\E i \in DOMAIN persona.activity.active_subreddits :
                           persona.activity.active_subreddits[i].name
                               = "AskScience")
                          => (archetypes[k][1] = "The Sage"
                                  => scores[k][2] >= 2)
            /\ \A k \in DOMAIN PersonalityBonuses :
                   PersonalityBonuses[k][4] \in {1, 2}
            /\ \E k \in DOMAIN archetypes :
                   /\ scores[k][1] = persona.archetype
                   /\ \A j \in DOMAIN archetypes : scores[j][2] <= scores[k][2]

\* a returned persona of a user active in AskScience, with an archetype
\* that scores by a trait word of a fact, one that scores by a bonus, and
\* The Sage scoring by its subreddit
C13_Witness ==
    /\ pc = "done"
    /\ \E i \in DOMAIN persona.activity.active_subreddits :
           persona.activity.active_subreddits[i].name = "AskScience"
    /\ \E k \in DOMAIN archetypes :
           /\ archetypes[k][1] = "The Sage"
           /\ AffinityHits(archetypes[k], persona) # {}
    /\ \E k \in DOMAIN archetypes : TraitHits(archetypes[k], persona) # {}
    /\ \E k \in DOMAIN archetypes : BonusOf(archetypes[k][1], persona) = 2
    /\ \E k \in DOMAIN archetypes : BonusOf(archetypes[k][1], persona) = 1

\* ------------------------------------------------------------------------
\* Properties of the demographics dict
\* ------------------------------------------------------------------------
\* the demographics dict at hand: the local of _extract_demographics while
\* its loop runs, the one stored in the persona afterwards
Demographics ==
    IF pc = "demographics" THEN demographics
    ELSE IF pc \in {"behaviors", "frustrations", "motivations", "goals",
                    "personality", "archetype", "done"}
    THEN persona.basic_info.detected_demographics
    ELSE NoDemographics

\* the items whose leftmost age mention lies in the accepted range
AgeItems ==
    {k \in DOMAIN all_text_items :
        /\ AgeSearch(all_text_items[k].text).found
        /\ AgeSearch(all_text_items[k].text).age \in 13..90}

LocationItems ==
    {k \in DOMAIN all_text_items :
        LocationSearch(all_text_items[k].text).found}

\* C14: every field of the demographics dict is either unset (value None,
\* confidence 0, citation None) or holds a value with the fixed confidence
\* of its field (age 0.9, location 0.8, occupation 0.7, status 0.75) and
\* cites one of the normalized text items; when the first item that gives
\* an age is also the first that gives a location, both fields of the
\* result cite that item.
C14_FieldShape ==
    LET fixed == [age |-> 90, location |-> 80, occupation |-> 70,
                  status |-> 75]
    IN  /\ DOMAIN Demographics = {"age", "location", "occupation", "status"}
        /\ \A f \in DOMAIN Demographics :
               \/ Demographics[f] = UnsetField
               \/ /\ Demographics[f].value # None
                  /\ Demographics[f].confidence = fixed[f]
                  /\ \E k \in DOMAIN all_text_items :
                         Demographics[f].citation = <<all_text_items[k]>>
        /\ (pc = "done" /\ AgeItems # {} /\ LocationItems # {}
                /\ MinOf(AgeItems) = MinOf(LocationItems))
               => /\ Demographics["age"].citation
                         = <<all_text_items[MinOf(AgeItems)]>>
                  /\ Demographics["location"].citation
                         = Demographics["age"].citation

\* a returned persona whose second item says "I'm 25 years old and I live
\* in Seattle.": age 25 and location Seattle cite that item, the status
\* cites another item and the occupation is unset
C14_Witness ==
    /\ pc = "done"
    /\ Len(all_text_items) = 3
    /\ Demographics["age"]
           = [value |-> <<25>>, confidence |-> AgeConfidence,
              citation |-> <<all_text_items[2]>>]
    /\ Demographics["location"]
           = [value |-> << <<"Seattle">> >>,
              confidence |-> LocationConfidence,
              citation |-> <<all_text_items[2]>>]
    /\ Demographics["occupation"] = UnsetField
    /\ Demographics["status"].confidence = StatusConfidence
    /\ Demographics["status"].citation # Demographics["age"].citation

\* the items that give an occupation the stoplist lets through
OccupationItems ==
    {k \in DOMAIN all_text_items :
        LET m == OccupationSearch(all_text_items[k].text)
        IN  m.found /\ Lower(m.occupation) \notin OccupationStoplist}

\* the relationship categories one of whose indicators the text matches
StatusesIn(text) ==
    {k \in DOMAIN status_indicators :
        \E j \in DOMAIN status_indicators[k][2] :
            IndicatorSearch(status_indicators[k][2][j], text)}

StatusItems ==
    {k \in DOMAIN all_text_items : StatusesIn(all_text_items[k].text) # {}}

\* the items that give an accepted match for the field
MatchItems(f) ==
    IF f = "age" THEN AgeItems
    ELSE IF f = "location" THEN LocationItems
    ELSE IF f = "occupation" THEN OccupationItems
    ELSE StatusItems

\* what the item says for the field
MatchValue(f, item) ==
    IF f = "age" THEN {AgeSearch(item.text).age}
    ELSE IF f = "location" THEN {LocationSearch(item.text).location}
    ELSE IF f = "occupation" THEN {OccupationSearch(item.text).occupation}
    ELSE {status_indicators[k][1] : k \in StatusesIn(item.text)}

\* C15: a turn of the loop of _extract_demographics changes no field that
\* an earlier turn has set, and when the loop ends every field is unset if
\* no item gave an accepted match for it, and otherwise holds a value of,
\* and cites, the first item in corpus order that gave one.
C15_FirstItemWins ==
    [][/\ (pc = "demographics" /\ pc' = "demographics") =>
              \A f \in DemographicFields :
                  demographics[f] # UnsetField
                      => demographics'[f] = demographics[f]
       /\ (pc = "demographics" /\ pc' = "behaviors") =>
              \A f \in DemographicFields :
                  LET field == persona'.basic_info.detected_demographics[f]
                  IN  IF MatchItems(f) = {} THEN field = UnsetField
                      ELSE LET first == all_text_items[MinOf(MatchItems(f))]
                           IN  /\ field.citation = <<first>>
                               /\ \E v \in MatchValue(f, first) :
                                      field.value = <<v>>]_vars

\* a returned persona of three items of which two state an age, two a
\* place and two an occupation, all different: the fields hold what the
\* first of each two said
C15_Witness ==
    /\ pc = "done"
    /\ Len(all_text_items) = 3
    /\ \A f \in {"age", "location", "occupation"} :
           /\ Cardinality(MatchItems(f)) = 2
           /\ \E i, j \in MatchItems(f) :
                  /\ i < j
                  /\ MatchValue(f, all_text_items[i])
                         # MatchValue(f, all_text_items[j])
                  /\ Demographics[f].citation = <<all_text_items[i]>>
                  /\ <<Demographics[f].value[1]>>
                         \in {<<v>> : v \in MatchValue(f, all_text_items[i])}

\* the age mentions of a text, in text order
AgeMentions(text) ==
    LET at == {p \in DOMAIN text : AgeAt(text, p)}
        nth[n \in 0..Cardinality(at)] ==
            IF n = 0 THEN 0
            ELSE MinOf({p \in at : p > nth[n - 1]})
    IN  [n \in 1..Cardinality(at) |->
            IntOf(text[EndOfAny({ <<"i", "am">>, <<"i'm">> }, text, nth[n])])]

\* the items that hold an age mention in 13..90, wherever in the text
MentionItems ==
    {k \in DOMAIN all_text_items :
        \E n \in DOMAIN AgeMentions(all_text_items[k].text) :
            AgeMentions(all_text_items[k].text)[n] \in 13..90}

\* C16: the age field of a returned persona is unset when no item holds an
\* age mention in 13..90, and otherwise holds the first such mention of
\* the first item that holds one, in text order, and cites that item: a
\* mention out of range that comes earlier, in the same item or in an
\* earlier one, does not stand in its way.
C16_FirstAgeInRange ==
    pc = "done" =>
        IF MentionItems = {} THEN Demographics["age"] = UnsetField
        ELSE LET item == all_text_items[MinOf(MentionItems)]
                 ages == AgeMentions(item.text)
                 n == MinOf({j \in DOMAIN ages : ages[j] \in 13..90})
             IN  Demographics["age"]
                     = [value |-> <<ages[n]>>, confidence |-> 90,
                        citation |-> <<item>>]

\* the relationship categories in the order of the status_indicators dict
StatusOrder ==
    <<"single", "married", "in a relationship", "divorced", "widowed">>

\* C17: the status field of a returned persona is unset when no item
\* matches a status indicator, and otherwise cites the first item in corpus
\* order that matches one and holds, with confidence 0.75, the first
\* category in the order single, married, in a relationship, divorced,
\* widowed of which that item matches an indicator.
C17_FirstStatusInMapOrder ==
    /\ [k \in DOMAIN status_indicators |-> status_indicators[k][1]]
           = StatusOrder
    /\ pc = "done" =>
           IF StatusItems = {} THEN Demographics["status"] = UnsetField
           ELSE LET item == all_text_items[MinOf(StatusItems)]
                IN  Demographics["status"]
                        = [value |-> <<StatusOrder[MinOf(StatusesIn(item.text))]>>,
                           confidence |-> 75,
                           citation |-> <<item>>]

\* a returned persona whose first status item says "my husband is here.
\* I'm single": it matches married and single, single is stored, and the
\* later item that says "I'm divorced" changes nothing
C17_Witness ==
    /\ pc = "done"
    /\ Cardinality(StatusItems) = 2
    /\ StatusesIn(all_text_items[MinOf(StatusItems)].text) = {1, 2}
    /\ \E k \in StatusItems : StatusesIn(all_text_items[k].text) = {4}
    /\ Demographics["status"].value = <<"single">>
    /\ Demographics["status"].citation
           = <<all_text_items[MinOf(StatusItems)]>>

\* ------------------------------------------------------------------------
\* Properties of the normalized text items
\* ------------------------------------------------------------------------
\* the words and marks of a text, without the empty tokens
Written(text) == SelectSeq(text, LAMBDA t : t # "")

\* the field of an input entry, or what the code puts for a missing one
Given(entry, field, default) ==
    IF field \in DOMAIN entry THEN entry[field] ELSE default

\* the item carries the metadata of the input entry
SameEntry(item, entry) ==
    /\ item.url = Given(entry, "url", "")
    /\ item.subreddit = Given(entry, "subreddit", "")
    /\ item.created_utc = Given(entry, "created_utc", EmptyStamp)
    /\ item.score = Given(entry, "score", 0)

\* C18: once analyze has built the normalized text items, there is one
\* item per post followed by one item per comment, each group in input
\* order, len(posts) + len(comments) items in all; the text of a post's
\* item is its title, a space and its body (each empty when missing), and
\* the text of a comment's item is its body.
C18_ItemsInInputOrder ==
    pc \in {"demographics", "behaviors", "frustrations", "motivations",
            "goals", "personality", "archetype", "done"} =>
        LET posts == Given(user_data.d, "posts", <<>>)
            comments == Given(user_data.d, "comments", <<>>)
        IN  /\ Len(all_text_items) = Len(posts) + Len(comments)
            /\ \A k \in DOMAIN posts :
                   LET item == all_text_items[k]
                       title == Given(posts[k], "title", <<>>)
                       body == Given(posts[k], "text", <<>>)
                   IN  /\ item.source = "post"
                       /\ SameEntry(item, posts[k])
                       /\ Written(item.text) = title \o body
                       /\ StrLen(item.text) = StrLen(title) + 1 + StrLen(body)
            /\ \A k \in DOMAIN comments :
                   LET item == all_text_items[Len(posts) + k]
                   IN  /\ item.source = "comment"
                       /\ SameEntry(item, comments[k])
                       /\ item.text = Given(comments[k], "body", <<>>)

\* a returned persona of two posts with different timestamps and one
\* comment: three items, the posts first and in their order
C18_Witness ==
    /\ pc = "done"
    /\ TopLevel \subseteq DOMAIN user_data.d
    /\ Len(user_data.d["posts"]) = 2
    /\ Len(user_data.d["comments"]) = 1
    /\ user_data.d["posts"][1] # user_data.d["posts"][2]
    /\ \A k \in 1..2 :
           {"title", "created_utc"} \subseteq DOMAIN user_data.d["posts"][k]
    /\ "body" \in DOMAIN user_data.d["comments"][1]
    /\ Len(all_text_items) = 3
    /\ all_text_items[1].created_utc = user_data.d["posts"][1]["created_utc"]
    /\ all_text_items[2].created_utc = user_data.d["posts"][2]["created_utc"]
    /\ all_text_items[3].text = user_data.d["comments"][1]["body"]
    /\ Written(all_text_items[1].text) = user_data.d["posts"][1]["title"]

\* ------------------------------------------------------------------------
\* Properties of the order and of the number of the facts
\* ------------------------------------------------------------------------
RECURSIVE Concat(_)
\* the sequences of a sequence, one after the other
Concat(ss) == IF ss = <<>> THEN <<>> ELSE Head(ss) \o Concat(Tail(ss))

\* strategy (a): keyword by keyword, the sentences of the text that hold
\* the keyword and are longer than minLen
SentenceCandidates(text, keywords, minLen) ==
    Concat([k \in DOMAIN keywords |->
        SelectSeq(SplitSentences(text),
                  LAMBDA s : KeywordIn(keywords[k], s) /\ StrLen(s) > minLen)])

\* strategy (b): template by template, the matches longer than 10
PhraseCandidates(text, patterns, lead) ==
    Concat([k \in DOMAIN patterns |->
        SelectSeq([j \in DOMAIN FindIter(patterns[k], text, 1) |->
                      lead \o FindIter(patterns[k], text, 1)[j]],
                  LAMBDA ph : StrLen(ph) > 10)])

\* the candidates of one item: those of strategy (a), then those of (b)
ItemCandidates(c, item) ==
    LET text == Lower(item.text)
    IN  IF c = "behavior_and_habits"
        THEN SentenceCandidates(text, habit_keywords, 20)
                 \o PhraseCandidates(text, habit_patterns, <<"I">>)
        ELSE IF c = "frustrations"
        THEN (IF NegAbove(text)
              THEN SentenceCandidates(text, frustration_keywords, 15)
              ELSE <<>>)
                 \o PhraseCandidates(text, frustration_patterns, <<>>)
        ELSE SentenceCandidates(text, goal_keywords, 15)
                 \o PhraseCandidates(text, goal_patterns, <<>>)

\* the candidates of the corpus in discovery order, as facts
Discovery(c) ==
    Concat([k \in DOMAIN all_text_items |->
        LET cands == ItemCandidates(c, all_text_items[k])
        IN  [j \in DOMAIN cands |->
                [description |-> Capitalize(Strip(cands[j])),
                 citation |-> all_text_items[k]]]])

\* the candidates that are accepted: each one that is not more than 0.7
\* similar to one accepted before it
AcceptedOf(cands) ==
    FoldLeft(LAMBDA kept, cand :
                 IF \E j \in DOMAIN kept :
                        TooSimilar(cand.description, kept[j].description)
                 THEN kept ELSE Append(kept, cand),
             <<>>, cands)

FactCollections == {"behavior_and_habits", "frustrations", "goals_and_needs"}

\* C19: each of the three fact collections of a returned persona holds at
\* most 10 facts, and they are the first 10 accepted candidates in
\* discovery order: the items in corpus order and, within an item, the
\* keyword sentences of strategy (a) before the template phrases of (b).
C19_FirstTenInDiscoveryOrder ==
    pc = "done" =>
        \A c \in FactCollections :
            LET accepted == AcceptedOf(Discovery(c))
            IN  /\ Len(persona[c]) <= 10
                /\ Len(persona[c]) = IF Len(accepted) < 10 THEN Len(accepted)
                                     ELSE 10
                /\ \A k \in DOMAIN persona[c] : persona[c][k] = accepted[k]

\* a returned persona of three items with 12 accepted candidates in each
\* collection: each collection holds 10 facts, the first three behaviors
\* are sentences of the first item and the fourth is its template phrase,
\* which stands first in the text; the last fact cites the third item
C19_Witness ==
    /\ pc = "done"
    /\ Len(all_text_items) = 3
    /\ \A c \in FactCollections :
           /\ Len(AcceptedOf(Discovery(c))) = 12
           /\ Len(persona[c]) = 10
           /\ persona[c][1].citation = all_text_items[1]
           /\ persona[c][4].citation = all_text_items[1]
           /\ persona[c][5].citation = all_text_items[2]
           /\ persona[c][10].citation = all_text_items[3]
    /\ SubSeq(persona.behavior_and_habits[1].description, 1, 3)
           = <<"I", "always", "hate">>
    /\ SubSeq(persona.behavior_and_habits[4].description, 1, 3)
           = <<"I", "i", "never">>
    /\ SubSeq(all_text_items[1].text, 1, 2) = <<"I", "never">>

\* the keyword sentences strategy (a) takes from the item
KeywordCandidates(c, item) ==
    LET text == Lower(item.text)
    IN  IF c = "behavior_and_habits"
        THEN SentenceCandidates(text, habit_keywords, 20)
        ELSE IF c = "frustrations"
        THEN (IF NegAbove(text)
              THEN SentenceCandidates(text, frustration_keywords, 15)
              ELSE <<>>)
        ELSE SentenceCandidates(text, goal_keywords, 15)

\* the templates of a collection and what the miner writes before a match
TemplatesOf(c) ==
    IF c = "behavior_and_habits" THEN [patterns |-> habit_patterns,
                                        lead |-> <<"I">>]
    ELSE IF c = "frustrations" THEN [patterns |-> frustration_patterns,
                                     lead |-> <<>>]
    ELSE [patterns |-> goal_patterns, lead |-> <<>>]

\* the clause remainders, captured after the prefix, of the template
\* matches of the cited item that read as the fact
RemaindersOf(c, fact) ==
    LET t == TemplatesOf(c)
        text == Lower(fact.citation.text)
    IN  UNION { { SubSeq(m, Len(t.patterns[k]) + 1, Len(m)) :
                    m \in { x \in Range(FindIter(t.patterns[k], text, 1)) :
                              Capitalize(Strip(t.lead \o x))
                                  = fact.description } } :
                k \in DOMAIN t.patterns }

\* C20: a fact of a returned persona that is no keyword sentence of the
\* item it cites is a template match whose captured clause remainder is at
\* least 10 characters long, in behaviors, frustrations and goals alike.
C20_RemainderAtLeastTen ==
    pc = "done" =>
        \A c \in FactCollections :
            \A k \in DOMAIN persona[c] :
                LET fact == persona[c][k]
                    sentences == KeywordCandidates(c, fact.citation)
                IN  \/ \E j \in DOMAIN sentences :
                           Capitalize(Strip(sentences[j])) = fact.description
                    \/ /\ RemaindersOf(c, fact) # {}
                       /\ \A r \in RemaindersOf(c, fact) : StrLen(r) >= 10

\* ------------------------------------------------------------------------
\* Properties of the personality scores and of their citations
\* ------------------------------------------------------------------------
\* the lowered text of the corpus, as ' '.join makes it
CorpusText ==
    Flatten([k \in DOMAIN all_text_items |-> Lower(all_text_items[k].text)])

\* the occurrences of the left and of the right keywords of an axis
LeftCount(axis) == CountKeywords(axis[2], CorpusText)

RightCount(axis) == CountKeywords(axis[3], CorpusText)

Distance(a, b) == IF a < b THEN b - a ELSE a - b

\* C21: with L and R the occurrences of the left and of the right keywords
\* of an axis in the whole corpus, the score of the axis in a returned
\* persona is 50 when L + R = 0 and otherwise 100 * R / (L + R) rounded to
\* the nearest integer (L = 1 and R = 2 give 67): the score is no further
\* than one half from the exact quotient.
C21_RoundedShare ==
    pc = "done" =>
        \A k \in DOMAIN personality_dimensions :
            LET axis  == personality_dimensions[k]
                L     == LeftCount(axis)
                R     == RightCount(axis)
                score == persona.personality[axis[1]].score
            IN  IF L + R = 0
                THEN score = NeutralScore
                ELSE 2 * Distance(score * (L + R), Percent * R) <= L + R

\* the text of the item holds a keyword of either side of the axis
MatchesAxis(axis, item) ==
    \E k \in DOMAIN (axis[2] \o axis[3]) :
        CountWord((axis[2] \o axis[3])[k], Lower(item.text)) > 0

\* the items that match the axis in corpus order, an item that occurs
\* several times taken where it occurs first
AxisItems(axis) ==
    DistinctIn(SelectSeq(all_text_items, LAMBDA item : MatchesAxis(axis, item)),
               {})

\* C22: the citations of a personality axis in a returned persona are the
\* first 3 items in corpus order whose text holds a keyword of either side
\* of the axis (all of them when fewer than 3 match), whatever the place of
\* the keywords in the keyword lists.
C22_FirstThreeInCorpusOrder ==
    pc = "done" =>
        \A k \in DOMAIN personality_dimensions :
            LET axis == personality_dimensions[k]
            IN  persona.personality[axis[1]].citations
                    = Take(AxisItems(axis), MaxCitations)

\* ------------------------------------------------------------------------
\* Properties of the motivation scores and of their citations
\* ------------------------------------------------------------------------
\* the sentences of the item that count for the keyword: those that hold
\* it and whose positive share is above 0.1
CountingSentences(kw, item) ==
    LET sentences == SplitSentences(Lower(item.text))
    IN  {i \in DOMAIN sentences :
            KeywordIn(kw, sentences[i]) /\ PosAbove(sentences[i])}

\* the raw counter of a category after the corpus pass: one for every
\* item, keyword of the category and counting sentence
RawCounter(entry) ==
    SumSeq([k \in DOMAIN all_text_items |->
        SumSeq([j \in DOMAIN entry[2] |->
            Cardinality(CountingSentences(entry[2][j], all_text_items[k]))])])

RawCounters ==
    [c \in Categories |->
        RawCounter(category_keywords[
            CHOOSE k \in DOMAIN category_keywords :
                category_keywords[k][1] = c])]

MaxCounter == MaxOf({RawCounters[c] : c \in Categories})

\* C23: with the raw counters of the six categories after the corpus pass
\* and m their maximum, each motivation score of a returned persona is the
\* integer part of 10 * c / m when m > 0, and all six scores are 0 when
\* every counter is 0: a score is relative to the most evidenced category
\* of the same run.
C23_RelativeToMaximum ==
    pc = "done" =>
        \A c \in Categories :
            persona.motivations[c].score
                = IF MaxCounter > 0
                  THEN (TopScore * RawCounters[c]) \div MaxCounter
                  ELSE 0

\* a returned persona whose counters are 12, 3, 2, 1, 0 and 0: the scores
\* are 10, 2, 1 and 0
C23_Witness ==
    /\ pc = "done"
    /\ RawCounters["convenience"] = 12
    /\ RawCounters["preferences"] = 3
    /\ RawCounters["speed"] = 2
    /\ RawCounters["wellness"] = 1
    /\ persona.motivations["convenience"].score = 10
    /\ persona.motivations["preferences"].score = 2
    /\ persona.motivations["speed"].score = 1
    /\ persona.motivations["wellness"].score = 0
    /\ persona.motivations["comfort"].score = 0

\* the item raised the counter of the category
Incremented(entry, item) ==
    \E j \in DOMAIN entry[2] : CountingSentences(entry[2][j], item) # {}

\* C24: in a returned persona the citations of a motivation category are
\* at most 3, hold no item twice and are the first items in corpus order
\* that raised the counter of the category; an item is cited only if one
\* of its sentences holds a keyword of the category and has a positive
\* share above 0.1.
C24_FirstThreeCounted ==
    pc = "done" =>
        \A k \in DOMAIN category_keywords :
            LET entry     == category_keywords[k]
                citations == persona.motivations[entry[1]].citations
                counted   == DistinctIn(
                                 SelectSeq(all_text_items,
                                     LAMBDA item : Incremented(entry, item)),
                                 {})
            IN  /\ Len(citations) <= MaxCitations
                /\ \A i, j \in DOMAIN citations :
                       i # j => citations[i] # citations[j]
                /\ citations = Take(counted, MaxCitations)
                /\ \A i \in DOMAIN citations :
                       \E j \in DOMAIN entry[2] :
                           \E sentence \in
                                 Range(SplitSentences(Lower(citations[i].text))) :
                               /\ KeywordIn(entry[2][j], sentence)
                               /\ PosAbove(sentence)

\* a returned persona of four different items that all raised the counter
\* of preferences, which cites the first three; the third item holds the
\* speed keyword 'fast' in a sentence that is not pleasant, and speed does
\* not cite it
C24_Witness ==
    /\ pc = "done"
    /\ Len(all_text_items) = 4
    /\ Cardinality(Range(all_text_items)) = 4
    /\ \A k \in 1..4 :
           Incremented(category_keywords[4], all_text_items[k])
    /\ persona.motivations["preferences"].citations
           = SubSeq(all_text_items, 1, 3)
    /\ KeywordIn(<<"fast">>, Lower(all_text_items[3].text))
    /\ ~Incremented(category_keywords[3], all_text_items[3])
    /\ ~InList(all_text_items[3], persona.motivations["speed"].citations)

\* ------------------------------------------------------------------------
\* Properties of the activity summary
\* ------------------------------------------------------------------------
\* the number of input items whose timestamp parses
TimedItems == HowMany(HasTime, InputItems)

ReportedLevel == persona.activity.posting_frequency.activity_level

\* C25 as stated: the activity tier of a returned persona is Low when
\* fewer than 10 items have a timestamp that parses, none included,
\* Moderate from 10 to 49 and High from 50 on.
C25_TierByTimedItems ==
    pc = "done" =>
        ReportedLevel = IF TimedItems < 10 THEN "Low"
                        ELSE IF TimedItems < 50 THEN "Moderate"
                        ELSE "High"

\* C25, amended: the activity tier of a returned persona is Unknown when
\* no item has a timestamp that parses, Low from 1 to 9 such items,
\* Moderate from 10 to 49 and High from 50 on; items whose timestamp does
\* not parse do not count.
C25_TierOrUnknown ==
    pc = "done" =>
        ReportedLevel = IF TimedItems = 0 THEN "Unknown"
                        ELSE IF TimedItems \in 1..9 THEN "Low"
                        ELSE IF TimedItems \in 10..49 THEN "Moderate"
                        ELSE "High"

\* a returned persona of 50 items, 49 of them timed: the tier is Moderate
C25_Witness ==
    /\ pc = "done"
    /\ Len(InputItems) = 50
    /\ TimedItems = 49
    /\ ReportedLevel = "Moderate"

\* the subreddits named in the input, and for each the number of items
\* and the place of the first item, posts before comments
InputSubreddits ==
    {InputItems[k]["subreddit"] :
        k \in {j \in DOMAIN InputItems : HasSubreddit(InputItems[j])}}

ItemsIn(name) ==
    {k \in DOMAIN InputItems :
        HasSubreddit(InputItems[k]) /\ InputItems[k]["subreddit"] = name}

FirstSeen(name) == MinOf(ItemsIn(name))

\* C26: active_subreddits of a returned persona lists at most 10
\* subreddits (all of them when there are no more than 10), each once with
\* the number of its posts and comments, by falling count, subreddits of
\* equal count in the order they were first met (posts before comments,
\* input order); no subreddit left out has a higher count than a listed
\* one.
C26_TopTenByCount ==
    pc = "done" =>
        LET subs == persona.activity.active_subreddits
        IN  /\ Len(subs) <= 10
            /\ Len(subs) = MinInt(10, Cardinality(InputSubreddits))
            /\ \A k \in DOMAIN subs :
                   /\ subs[k].name \in InputSubreddits
                   /\ subs[k].count = Cardinality(ItemsIn(subs[k].name))
            /\ \A i, j \in DOMAIN subs :
                   i < j =>
                       /\ subs[i].name # subs[j].name
                       /\ \/ subs[i].count > subs[j].count
                          \/ /\ subs[i].count = subs[j].count
                             /\ FirstSeen(subs[i].name) < FirstSeen(subs[j].name)
            /\ \A name \in InputSubreddits :
                   (\A k \in DOMAIN subs : subs[k].name # name) =>
                       \A k \in DOMAIN subs :
                           Cardinality(ItemsIn(name)) <= subs[k].count

\* a returned persona of 49 posts in 11 subreddits and a comment in the
\* eleventh: five subreddits have 5 posts, the eleventh has 4 posts and the
\* comment and is listed sixth, four subreddits of 4 posts follow in input
\* order, and the tenth subreddit, of 4 posts as well, is left out
C26_Witness ==
    /\ pc = "done"
    /\ Cardinality(InputSubreddits) = 11
    /\ Len(persona.activity.active_subreddits) = 10
    /\ persona.activity.active_subreddits[5] = [name |-> "r5", count |-> 5]
    /\ persona.activity.active_subreddits[6] = [name |-> "r11", count |-> 5]
    /\ persona.activity.active_subreddits[7] = [name |-> "r6", count |-> 4]
    /\ persona.activity.active_subreddits[10] = [name |-> "r9", count |-> 4]
    /\ Cardinality(ItemsIn("r10")) = 4
    /\ CommentsOf(user_data)[1]["subreddit"] = "r11"

\* ------------------------------------------------------------------------
\* Properties of the fact collections taken together
\* ------------------------------------------------------------------------
\* C27: no fact collection of a returned persona holds two facts of the
\* same description, also when a sentence holds stopwords only (its word
\* set is empty once they are removed) and stands in several items or
\* holds several keywords.
C27_NoEqualDescriptions ==
    pc = "done" =>
        \A c \in FactCollections :
            \A i, j \in DOMAIN persona[c] :
                i # j => persona[c][i].description # persona[c][j].description

\* C28: when a raw counter of the motivations is positive, a category of
\* the returned persona has the score 10, and a category has the score 0
\* exactly when its raw counter is less than a tenth of the greatest raw
\* counter.
C28_TopIsTenAndZeroBelowTenth ==
    (pc = "done" /\ MaxCounter > 0) =>
        /\ \E c \in Categories : persona.motivations[c].score = TopScore
        /\ \A c \in Categories :
               persona.motivations[c].score = 0
                   <=> TopScore * RawCounters[c] < MaxCounter

\* a returned persona whose greatest counter is 12: a category of counter
\* 1 and one of counter 0 have the score 0, and one of counter 2 has not
C28_Witness ==
    /\ pc = "done"
    /\ MaxCounter = 12
    /\ \E c \in Categories :
           RawCounters[c] = 12 /\ persona.motivations[c].score = TopScore
    /\ \E c \in Categories :
           RawCounters[c] = 1 /\ persona.motivations[c].score = 0
    /\ \E c \in Categories :
           RawCounters[c] = 0 /\ persona.motivations[c].score = 0
    /\ \E c \in Categories :
           RawCounters[c] = 2 /\ persona.motivations[c].score = 1

\* the miners that have run when the call is at pc
MinedAt ==
    [behavior_and_habits |-> {"frustrations", "motivations", "goals",
                              "personality", "archetype", "done"},
     frustrations |-> {"motivations", "goals", "personality", "archetype",
                       "done"},
     goals_and_needs |-> {"personality", "archetype", "done"}]

\* C29: the three miners keep apart what they have accepted: from the step
\* of a miner on, its collection holds the first 10 candidates the miner
\* finds in the text items that are not too similar to an earlier accepted
\* candidate of the same collection, whatever the other two collections
\* hold.
C29_MinersKeepApart ==
    \A c \in FactCollections :
        pc \in MinedAt[c] =>
            persona[c] = Take(AcceptedOf(Discovery(c)), MaxFacts)

\* a returned persona in which one sentence is a behavior, a frustration
\* and a goal
C29_Witness ==
    /\ pc = "done"
    /\ \E b \in Range(persona.behavior_and_habits) :
           /\ \E f \in Range(persona.frustrations) :
                  f.description = b.description
           /\ \E g \in Range(persona.goals_and_needs) :
                  g.description = b.description

\* ------------------------------------------------------------------------
\* C30: the pipeline of main
\* ------------------------------------------------------------------------
\* the steps the pipeline is made of, in the order of main
PipelineOrder ==
    <<"environment", "url", "fetch", "analysis", "generation", "save">>

\* the completed steps of the run, the reading of the command line left out
StepsDone == SelectSeq(cli.steps, LAMBDA step : step # "arguments")

\* the steps completed are the first steps of the pipeline, in its order
InPipelineOrder ==
    /\ Len(StepsDone) <= Len(PipelineOrder)
    /\ StepsDone = SubSeq(PipelineOrder, 1, Len(StepsDone))

\* analyze has been called
AnalyzerInvoked == pc # "main"

\* the analyzer is invoked only on a validated URL and a fetch that
\* returned a post or a comment
InvokedOnFetchedData ==
    AnalyzerInvoked =>
        /\ validate_reddit_url(cli.url)
        /\ cli.username # None
        /\ Len(StepsDone) >= 3
        /\ Len(PostsOf(user_data)) + Len(CommentsOf(user_data)) >= 1

\* a file is there only after analysis and generation completed
SavedAfterGeneration ==
    cli.file # "none" =>
        /\ Len(StepsDone) >= 5
        /\ pc = "done"
        /\ returned # <<>>

\* the run ended without a failure exactly when it ended with status 0
EndedWell ==
    cli.at = "exited" => (cli.failed = "" <=> cli.exit_status = 0)

====
